---- MODULE Spec2Model ----
(***************************************************************************)
(* A model of the HDC reference implementation:                            *)
(*   reference_impl/python/hdc/ternary_encoder.py  (TernaryHDCEncoder)     *)
(*   reference_impl/python/hdc/text_encoder.py     (HDCTextEncoder)        *)
(*   reference_impl/python/quick_demo.py           (demo_mesh_gossip)      *)
(*                                                                         *)
(* The module holds several specifications over one set of variables:      *)
(*   PackSpec      pack_ternary followed by unpack_ternary on a vector     *)
(*   UnpackSpec    unpack_ternary on an arbitrary byte buffer              *)
(*   RepackSpec    unpack_ternary followed by pack_ternary on a buffer     *)
(*   EncodeSpec    one HDCTextEncoder, constructed and then called once    *)
(*   Spec          a process with several HDCTextEncoder instances         *)
(*   ThreadSpec    two threads inside _get_token_vector of one encoder     *)
(*   NgramSpec     _encode_ngram calls on one HDCTextEncoder               *)
(*   TokenSpec     _get_token_vector calls on two HDCTextEncoders          *)
(*   PadSpec       encode on texts that spell the pad symbol               *)
(*   SimSpec       the cosine_similarity methods of both classes           *)
(*   TernarizeSpec ternarize on one TernaryHDCEncoder                      *)
(*   SizeSpec      pack_ternary and get_vector_size                        *)
(*   ApiSpec       one encoder of either class, any method in any order    *)
(*   MeshSpec      the gossip propagation of the mesh demo                 *)
(* Each specification leaves the variables of the other parts idle.        *)
(***************************************************************************)
EXTENDS Integers, Sequences, FiniteSets, TLC

VARIABLES
    pstep,      \* position of the pack/unpack run: "vector", "packed", "received", "unpacked", "repacked"
    vector,     \* the tensor handed to pack_ternary, as a sequence of element values
    packed,     \* the byte buffer (a sequence of 0..255)
    hd_dim,     \* the hd_dim argument of unpack_ternary
    unpacked,   \* what unpack_ternary returned: [raised, values]
    gen,        \* state of the process-wide torch random generator
    vsa,        \* element domain of torchhd.random in this process ("MAP")
    enc,        \* the HDCTextEncoder instances: fields of each object
    ret,        \* the last encode call and what it returned
    thr,        \* per thread: position inside _get_token_vector and its locals
    tenc,       \* the TernaryHDCEncoder instance: fields of the object
    call,       \* the last call of a comparator, ternarize or size method and its outcome
    mesh        \* the mesh demo: the nodes' peers and memory, and the run of propagate

packVars == <<pstep, vector, packed, hd_dim, unpacked>>
encVars  == <<gen, vsa, enc, ret>>
vars     == <<pstep, vector, packed, hd_dim, unpacked, gen, vsa, enc, ret, thr, tenc, call, mesh>>

None == "None"

\* the idle values of the variables a specification does not use
NoResult == [raised |-> None, values |-> <<>>]
NoRet == [enc |-> 0, text |-> <<>>, vec |-> <<>>, hit |-> FALSE, added |-> {}, raised |-> None]
PackIdle ==
    /\ pstep = "idle" /\ vector = <<>> /\ packed = <<>> /\ hd_dim = 0
    /\ unpacked = NoResult
NoTenc == [built |-> FALSE, hd_dim |-> 0, sparsity |-> <<0, 1>>, base_dim |-> 0,
           projection |-> <<>>]
NoCall == [op |-> "none", self |-> 0, args |-> <<>>, raised |-> None, out |-> <<>>]
NoMesh == [phase |-> "idle", peers |-> <<>>, memory |-> <<>>, links |-> 0,
           origin |-> 0, ttl |-> 0, pending |-> <<>>, log |-> <<>>,
           last |-> <<>>]
ObjIdle == tenc = NoTenc /\ call = NoCall /\ mesh = NoMesh

(***************************************************************************)
(* Bounds of the model.                                                    *)
(***************************************************************************)
\* longest vector handed to pack_ternary, and largest hd_dim given to unpack_ternary
MaxDim == 6
\* longest byte buffer handed to unpack_ternary in UnpackSpec
MaxBufLen == 1
\* largest dimensions of an HDCTextEncoder
MaxDimensions == 3
\* largest ngram_size of an HDCTextEncoder
MaxNgram == 3
\* longest text handed to encode in EncodeSpec
MaxTextLen == 5
\* longest text handed to encode in Spec
MaxProcTextLen == 1
\* largest hd_dim of a TernaryHDCEncoder
MaxHdDim == 3
\* largest number of connect calls that build a mesh link by link
MaxLinks == 3
\* largest ttl handed to propagate
MaxTtl == 3

(***************************************************************************)
(* Generic helpers.                                                        *)
(***************************************************************************)
Min(a, b) == IF a < b THEN a ELSE b

\* 2^n
RECURSIVE Pow2(_)
Pow2(n) == IF n = 0 THEN 1 ELSE 2 * Pow2(n - 1)

\* Python's x << s and x >> s on non-negative integers
ShiftLeft(x, s)  == x * Pow2(s)
ShiftRight(x, s) == x \div Pow2(s)

\* Python's a | b on non-negative integers, bit by bit
RECURSIVE BitOr(_, _)
BitOr(a, b) ==
    IF a = 0 THEN b
    ELSE IF b = 0 THEN a
    ELSE (IF (a % 2 = 1) \/ (b % 2 = 1) THEN 1 ELSE 0) + 2 * BitOr(a \div 2, b \div 2)

\* Python's a & b on non-negative integers, bit by bit
RECURSIVE BitAnd(_, _)
BitAnd(a, b) ==
    IF a = 0 \/ b = 0 THEN 0
    ELSE (IF (a % 2 = 1) /\ (b % 2 = 1) THEN 1 ELSE 0) + 2 * BitAnd(a \div 2, b \div 2)

\* Python's s[:n] for n >= 0
Take(s, n) == SubSeq(s, 1, Min(n, Len(s)))

\* all sequences over S of length 0..n
SeqsUpTo(S, n) == UNION {[1..k -> S] : k \in 0..n}

\* ceil(n / 4)
CeilDiv4(n) == (n + 3) \div 4

(***************************************************************************)
(* TernaryHDCEncoder.pack_ternary                                          *)
(***************************************************************************)
\* the element values a tensor handed to pack_ternary may hold: the ternary
\* values and one value outside the contract
Elems == {-1, 0, 1, 2}
Ternary == {-1, 0, 1}

IsTernary(v) == \A i \in 1..Len(v) : v[i] \in Ternary

\* numpy's astype(np.int8) on an integer value: two's complement wrap to 8 bits
AsInt8(x) == ((x + 128) % 256) - 128

\* the if/elif chain of the mapping loop: what one value appends to bits
CodeOf(val) ==
    IF val = 0 THEN <<0>>
    ELSE IF val = 1 THEN <<1>>
    ELSE IF val = -1 THEN <<2>>
    ELSE <<>>

\* the mapping loop: bits, one 2-bit code per value that matched a branch
RECURSIVE MapBits(_)
MapBits(v) ==
    IF v = <<>> THEN <<>>
    ELSE CodeOf(AsInt8(Head(v))) \o MapBits(Tail(v))

\* the inner loop with the first element in the low bits: << (j * 2)
RECURSIVE PackByteLsbFirst(_, _, _, _)
PackByteLsbFirst(bits, i, j, byte) ==
    IF j = 4 THEN byte
    ELSE PackByteLsbFirst(bits, i, j + 1,
                          IF i + j < Len(bits)
                          THEN BitOr(byte, ShiftLeft(bits[i + j + 1], j * 2))
                          ELSE byte)

\* the inner loop "for j in range(4)" from j on, for the byte starting at bits[i] (0-based i)
RECURSIVE PackByte(_, _, _, _)
PackByte(bits, i, j, byte) ==
    IF j = 4 THEN byte
    ELSE PackByte(bits, i, j + 1,
                  IF i + j < Len(bits)
                  THEN BitOr(byte, ShiftLeft(bits[i + j + 1], 6 - j * 2))
                  ELSE byte)

\* the outer loop "for i in range(0, len(bits), 4)"
PackBitsMutant(bits) ==
    [k \in 1..(Len(bits) \div 4) |-> PackByte(bits, 4 * (k - 1), 0, 0)]

PackBits(bits) ==
    [k \in 1..CeilDiv4(Len(bits)) |-> PackByte(bits, 4 * (k - 1), 0, 0)]

pack_ternary(v) == PackBits(MapBits(v))

(***************************************************************************)
(* TernaryHDCEncoder.unpack_ternary                                        *)
(***************************************************************************)
Byte == 0..255

\* bits = (byte >> shift) & 0b11 for field f (0-based) of the buffer; the
\* shifts of a byte are taken in the order [6, 4, 2, 0]
FieldOf(bytes, f) == BitAnd(ShiftRight(bytes[(f \div 4) + 1], 6 - 2 * (f % 4)), 3)

\* the if/elif chain of the decoding loop: what one field appends to values
ValueOfMutant(bits) ==
    IF bits = 0 THEN <<0>>
    ELSE IF bits = 1 THEN <<-1>>
    ELSE IF bits = 2 THEN <<1>>
    ELSE <<>>

ValueOf(bits) ==
    IF bits = 0 THEN <<0>>
    ELSE IF bits = 1 THEN <<1>>
    ELSE IF bits = 2 THEN <<-1>>
    ELSE <<>>

\* the two nested loops from field f on; both loops end as soon as
\* len(values) >= hd_dim holds after a field has been handled
RECURSIVE UnpackLoop(_, _, _, _)
UnpackLoop(bytes, dim, f, values) ==
    IF f >= 4 * Len(bytes) THEN values
    ELSE LET v2 == values \o ValueOf(FieldOf(bytes, f))
         IN  IF Len(v2) >= dim THEN v2
             ELSE UnpackLoop(bytes, dim, f + 1, v2)

\* unpack_ternary without the two breaks and the slice: every field of the
\* buffer is decoded
unpack_ternary_whole(bytes, dim) ==
    [raised |-> None, values |-> UnpackLoop(bytes, 4 * Len(bytes) + 1, 0, <<>>)]

\* unpack_ternary never raises: it returns torch.tensor(values[:hd_dim])
unpack_ternary(bytes, dim) ==
    [raised |-> None, values |-> Take(UnpackLoop(bytes, dim, 0, <<>>), dim)]

(***************************************************************************)
(* The random generator behind torch.manual_seed and torchhd.random.       *)
(* torch keeps one process-wide generator; manual_seed(seed) sets its      *)
(* state to a function of the seed and every draw advances it.  The        *)
(* generator is modelled as a full-period linear congruential generator    *)
(* over GenStates whose output bit is the top bit of the state.            *)
(***************************************************************************)
GenStates == 0..15

\* torch.manual_seed(seed): the generator state is a function of the seed
\* alone; seedState is the seed reduced to the generator's state space
manual_seed(seedState) == seedState

\* one step of the generator
GenNext(g) == (5 * g + 11) % 16

\* the bit the generator puts out in state g
GenBit(g) == g \div 8

\* The element domain of torchhd.random.  The source calls it with the
\* number of vectors, the dimensions and the device only (lines 47 and 66),
\* so every draw is of torchhd's default model "MAP": elements -1.0 and +1.0,
\* each of which torch.logical_xor reads as True.  (The comments at lines 46
\* and 59 speak of binary vectors; model "BSC" with elements {0, 1} would
\* have to be named in the call, and no call names it.)
VsaModels == {"MAP"}

\* the draw as model "BSC" would make it: elements 0 and 1
ElemOfBsc(bit) == bit

\* the element torchhd.random makes of one random bit: -1 or +1
ElemOf(bit) == 2 * bit - 1

\* torchhd.random(1, dimensions) drawn from generator state g, element by
\* element: [vec |-> the vector, gen |-> the state after the draw]
RECURSIVE RandomLoop(_, _, _)
RandomLoop(g, n, acc) ==
    IF n = 0 THEN [vec |-> acc, gen |-> g]
    ELSE RandomLoop(GenNext(g), n - 1, Append(acc, ElemOf(GenBit(GenNext(g)))))

torchhd_random(g, dimensions) == RandomLoop(g, dimensions, <<>>)

\* torch.roll(v, shifts, dims=1): element j moves to position j + shifts (cyclic)
Roll(v, shifts) == [j \in 1..Len(v) |-> v[((j - 1 - shifts) % Len(v)) + 1]]

Truthy(x) == x # 0

\* torch.logical_or in place of torch.logical_xor
logical_or(a, b) == [i \in 1..Len(a) |-> IF Truthy(a[i]) \/ Truthy(b[i]) THEN 1 ELSE 0]

\* torch.logical_xor: zero is False, every other value is True; the result is bool
logical_xor(a, b) == [i \in 1..Len(a) |-> IF Truthy(a[i]) # Truthy(b[i]) THEN 1 ELSE 0]

\* torch.zeros(1, dimensions, dtype=torch.bool)
Zeros(dimensions) == [i \in 1..dimensions |-> 0]

(***************************************************************************)
(* HDCTextEncoder                                                          *)
(***************************************************************************)
\* a text is a sequence of characters; a token is a sequence of characters
Alphabet == {" ", "a", "A", "b"}
PAD == <<"<", "P", "A", "D", ">">>

\* the code point U+D800, a surrogate: a Python str may hold it on its own
\* (chr(0xD800), or bytes decoded with errors='surrogateescape'), and it is
\* neither whitespace nor changed by str.lower
LoneSurrogate == "U+D800"

\* token.encode() is UTF-8 with errors='strict': it returns the bytes of the
\* string unless the string holds a surrogate, for which it raises
\* UnicodeEncodeError
Encodable(token) == \A i \in 1..Len(token) : token[i] # LoneSurrogate

\* hashlib.md5(token.encode()).hexdigest()[:8] for the tokens of the model, as
\* the values of its 8 hex digits (the integer itself exceeds 32 bits signed)
TokenHash(token) ==
    CASE token = <<"a">> -> <<0, 12, 12, 1, 7, 5, 11, 9>>  \* 0cc175b9
      [] token = <<"b">> -> <<9, 2, 14, 11, 5, 15, 15, 14>>  \* 92eb5ffe
      [] token = <<"a", "a">> -> <<4, 1, 2, 4, 11, 12, 0, 10>>  \* 4124bc0a
      [] token = <<"a", "b">> -> <<1, 8, 7, 14, 15, 4, 4, 3>>  \* 187ef443
      [] token = <<"b", "a">> -> <<0, 7, 1, 5, 9, 12, 4, 7>>  \* 07159c47
      [] token = <<"b", "b">> -> <<2, 1, 10, 13, 0, 11, 13, 8>>  \* 21ad0bd8
      [] token = PAD -> <<2, 14, 0, 9, 12, 14, 6, 3>>  \* 2e09ce63
      [] token = <<>> -> <<13, 4, 1, 13, 8, 12, 13, 9>>  \* d41d8cd9
      [] token = <<"<", "p", "a", "d", ">">> -> <<10, 13, 3, 11, 14, 6, 14, 14>>  \* ad3be6ee

\* int(digits, 16) % m, digit by digit
RECURSIVE HexMod(_, _, _)
HexMod(digits, m, acc) ==
    IF digits = <<>> THEN acc
    ELSE HexMod(Tail(digits), m, (acc * 16 + Head(digits)) % m)

\* seed = int(hashlib.md5(token.encode()).hexdigest()[:8], 16), known to the
\* generator only through manual_seed, which reduces it to a generator state
TokenSeedState(token) == HexMod(TokenHash(token), 16, 0)

\* str.lower, character by character
LowerChar(c) ==
    CASE c = "A" -> "a"
      [] c = "B" -> "b"
      [] c = "D" -> "d"
      [] c = "P" -> "p"
      [] OTHER -> c
Lower(text) == [i \in 1..Len(text) |-> LowerChar(text[i])]

IsSpace(c) == c = " "

\* str.split(): the maximal runs of non-whitespace characters, in order
RECURSIVE SplitLoop(_, _, _, _)
SplitLoop(chars, i, cur, out) ==
    IF i > Len(chars) THEN (IF cur = <<>> THEN out ELSE Append(out, cur))
    ELSE IF IsSpace(chars[i])
         THEN SplitLoop(chars, i + 1, <<>>, IF cur = <<>> THEN out ELSE Append(out, cur))
         ELSE SplitLoop(chars, i + 1, Append(cur, chars[i]), out)

\* str.split(" "): every single space separates, empty pieces are kept
RECURSIVE SplitKeepEmpty(_, _, _, _)
SplitKeepEmpty(chars, i, cur, out) ==
    IF i > Len(chars) THEN Append(out, cur)
    ELSE IF IsSpace(chars[i])
         THEN SplitKeepEmpty(chars, i + 1, <<>>, Append(out, cur))
         ELSE SplitKeepEmpty(chars, i + 1, Append(cur, chars[i]), out)

tokenizeMutant(text) == SplitKeepEmpty(Lower(text), 1, <<>>, <<>>)

\* _tokenize without the lowercasing: text.split()
tokenize_nolower(text) == SplitLoop(text, 1, <<>>, <<>>)

\* _tokenize: text.lower().split()
tokenize(text) == SplitLoop(Lower(text), 1, <<>>, <<>>)

\* _generate_position_vectors: one base vector drawn from the process-wide
\* generator as it stands, then position i is the base rolled by i
generate_position_vectors(g, dimensions, ngram_size) ==
    LET base == torchhd_random(g, dimensions)
    IN  [positions |-> [p \in 1..ngram_size |-> Roll(base.vec, p - 1)],
         gen |-> base.gen]

\* the outcome of _get_token_vector when token.encode() raises at line 64:
\* nothing was seeded, drawn or stored
EncodeRaised(cache, g) ==
    [vec |-> <<>>, cache |-> cache, gen |-> g, raised |-> "UnicodeEncodeError"]

\* _get_token_vector without the reseeding of line 65
get_token_vector_noseed(cache, g, token, dimensions) ==
    IF token \in DOMAIN cache
    THEN [vec |-> cache[token], cache |-> cache, gen |-> g, raised |-> None]
    ELSE IF ~Encodable(token) THEN EncodeRaised(cache, g)
    ELSE LET drawn == torchhd_random(g, dimensions)
             cache2 == [t \in DOMAIN cache \cup {token} |->
                           IF t = token THEN drawn.vec ELSE cache[t]]
         IN  [vec |-> cache2[token], cache |-> cache2, gen |-> drawn.gen, raised |-> None]

\* _get_token_vector without the store of line 66: the vector is drawn again
\* on every call and the dict is left alone
get_token_vector_unstored(cache, g, token, dimensions) ==
    IF ~Encodable(token) THEN EncodeRaised(cache, g)
    ELSE LET drawn == torchhd_random(manual_seed(TokenSeedState(token)), dimensions)
         IN  [vec |-> drawn.vec, cache |-> cache, gen |-> drawn.gen, raised |-> None]

\* _get_token_vector that hands out a new vector as bits (vec > 0) and a
\* cached one as it is stored
get_token_vector_bits_on_miss(cache, g, token, dimensions) ==
    IF token \in DOMAIN cache
    THEN [vec |-> cache[token], cache |-> cache, gen |-> g, raised |-> None]
    ELSE IF ~Encodable(token) THEN EncodeRaised(cache, g)
    ELSE LET drawn == torchhd_random(manual_seed(TokenSeedState(token)), dimensions)
             cache2 == [t \in DOMAIN cache \cup {token} |->
                           IF t = token THEN drawn.vec ELSE cache[t]]
         IN  [vec |-> [i \in 1..dimensions |-> IF drawn.vec[i] > 0 THEN 1 ELSE 0],
              cache |-> cache2, gen |-> drawn.gen, raised |-> None]

\* _get_token_vector, run without interruption: a cached token is returned as
\* it is; otherwise the seed is taken from the md5 hash of token.encode()
\* (which raises for a string UTF-8 cannot encode), the generator is
\* reseeded, the vector is drawn and stored, and the stored entry is returned
get_token_vector(cache, g, token, dimensions) ==
    IF token \in DOMAIN cache
    THEN [vec |-> cache[token], cache |-> cache, gen |-> g, raised |-> None]
    ELSE IF ~Encodable(token) THEN EncodeRaised(cache, g)
    ELSE LET drawn == torchhd_random(manual_seed(TokenSeedState(token)), dimensions)
             cache2 == [t \in DOMAIN cache \cup {token} |->
                           IF t = token THEN drawn.vec ELSE cache[t]]
         IN  [vec |-> cache2[token], cache |-> cache2, gen |-> drawn.gen, raised |-> None]

\* the loop of _encode_ngram from token number i (1-based) of the window on;
\* an exception of _get_token_vector ends the call
RECURSIVE EncodeNgramLoop(_, _, _, _, _, _)
EncodeNgramLoop(e, cache, g, window, i, ngram_vector) ==
    IF i > Len(window)
    THEN [vec |-> ngram_vector, cache |-> cache, gen |-> g, raised |-> None]
    ELSE LET tv == get_token_vector(cache, g, window[i], e.dimensions)
             bound == logical_xor(tv.vec, e.position_vectors[i])
         IN  IF tv.raised # None THEN tv
             ELSE EncodeNgramLoop(e, tv.cache, tv.gen, window, i + 1,
                                  logical_xor(ngram_vector, bound))

\* _encode_ngram(tokens) on encoder object e with the cache and generator given
encode_ngram(e, cache, g, window) ==
    EncodeNgramLoop(e, cache, g, window, 1, Zeros(e.dimensions))

\* the slice tokens[i:i+ngram_size] without the padding of lines 124-126
NgramUnpadded(tokens, i, ngram_size) ==
    SubSeq(tokens, i + 1, Min(i + ngram_size, Len(tokens)))

\* ngram = tokens[i:i+ngram_size], padded with '<PAD>' (i is 0-based)
Ngram(tokens, i, ngram_size) ==
    LET part == SubSeq(tokens, i + 1, Min(i + ngram_size, Len(tokens)))
    IN  IF Len(part) < ngram_size
        THEN part \o [x \in 1..(ngram_size - Len(part)) |-> PAD]
        ELSE part

Ngrams(tokens, ngram_size) == [w \in 1..Len(tokens) |-> Ngram(tokens, w - 1, ngram_size)]

\* the loop "for ngram in ngrams" from window number w on
RECURSIVE EncodeWindowsLoop(_, _, _, _, _, _)
EncodeWindowsLoop(e, cache, g, ngrams, w, ngram_vectors) ==
    IF w > Len(ngrams)
    THEN [vecs |-> ngram_vectors, cache |-> cache, gen |-> g, raised |-> None]
    ELSE LET r == encode_ngram(e, cache, g, ngrams[w])
         IN  IF r.raised # None
             THEN [vecs |-> <<>>, cache |-> r.cache, gen |-> r.gen, raised |-> r.raised]
             ELSE EncodeWindowsLoop(e, r.cache, r.gen, ngrams, w + 1,
                                    Append(ngram_vectors, r.vec))

\* vote_count = stacked.sum(dim=0), at dimension i
VoteCount(ngram_vectors, i) ==
    Cardinality({w \in 1..Len(ngram_vectors) : ngram_vectors[w][i] = 1})

\* the bundling with < in place of >
BundleMinority(ngram_vectors, dimensions) ==
    IF Len(ngram_vectors) = 1 THEN ngram_vectors[1]
    ELSE [i \in 1..dimensions |->
            IF 2 * VoteCount(ngram_vectors, i) < Len(ngram_vectors) THEN 1 ELSE 0]

\* lines 134-142: one window is returned as it is, otherwise
\* vote_count > len(ngram_vectors) / 2 decides each dimension
Bundle(ngram_vectors, dimensions) ==
    IF Len(ngram_vectors) = 1 THEN ngram_vectors[1]
    ELSE [i \in 1..dimensions |->
            IF 2 * VoteCount(ngram_vectors, i) > Len(ngram_vectors) THEN 1 ELSE 0]

\* encode(text) on encoder object e with generator state g:
\* [vec |-> the returned vector, cache |-> token_vectors after the call,
\*  gen |-> the generator state after the call, raised |-> the exception]
encode(e, g, text) ==
    LET tokens == tokenize(text)
    IN  IF Len(tokens) = 0
        THEN [vec |-> Zeros(e.dimensions), cache |-> e.token_vectors, gen |-> g,
              raised |-> None]
        ELSE LET r == EncodeWindowsLoop(e, e.token_vectors, g,
                                        Ngrams(tokens, e.ngram_size), 1, <<>>)
             IN  IF r.raised # None
                 THEN [vec |-> <<>>, cache |-> r.cache, gen |-> r.gen, raised |-> r.raised]
                 ELSE [vec |-> Bundle(r.vecs, e.dimensions), cache |-> r.cache,
                       gen |-> r.gen, raised |-> None]

(***************************************************************************)
(* The pack/unpack runs.  PackSpec is the round trip of demo() (pack a     *)
(* vector, unpack the bytes with hd_dim = the vector's length); UnpackSpec *)
(* hands unpack_ternary any buffer and any hd_dim.                         *)
(***************************************************************************)
EncIdle == gen = 0 /\ vsa = "MAP" /\ enc = <<>> /\ ret = NoRet
ThrIdle == thr = <<>>

InitPack ==
    /\ pstep = "vector"
    /\ vector \in SeqsUpTo(Elems, MaxDim)
    /\ packed = <<>> /\ hd_dim = 0 /\ unpacked = NoResult
    /\ EncIdle /\ ThrIdle /\ ObjIdle

InitUnpack ==
    /\ pstep = "received"
    /\ vector = <<>>
    /\ packed \in SeqsUpTo(Byte, MaxBufLen)
    /\ hd_dim \in 0..MaxDim
    /\ unpacked = NoResult
    /\ EncIdle /\ ThrIdle /\ ObjIdle

\* packed = encoder.pack_ternary(test_vector); hd_dim is the vector's length
PackStep ==
    /\ pstep = "vector"
    /\ packed' = pack_ternary(vector)
    /\ hd_dim' = Len(vector)
    /\ pstep' = "packed"
    /\ UNCHANGED <<vector, unpacked, gen, vsa, enc, ret, thr, tenc, call, mesh>>

\* unpacked = encoder.unpack_ternary(packed, hd_dim)
UnpackStep ==
    /\ pstep \in {"packed", "received"}
    /\ unpacked' = unpack_ternary(packed, hd_dim)
    /\ pstep' = "unpacked"
    /\ UNCHANGED <<vector, packed, hd_dim, gen, vsa, enc, ret, thr, tenc, call, mesh>>

NextPack == PackStep \/ UnpackStep
PackSpec == InitPack /\ [][NextPack]_vars

NextUnpack == UnpackStep
UnpackSpec == InitUnpack /\ [][NextUnpack]_vars

(***************************************************************************)
(* Claims about pack_ternary and unpack_ternary.                           *)
(***************************************************************************)
\* the 2-bit field j (0 = bits 7..6, 3 = bits 1..0) of byte number k (0-based)
FieldAt(bytes, k, j) == (bytes[k + 1] \div Pow2(6 - 2 * j)) % 4

\* the code the packed format assigns to a ternary value
FormatCode(val) == IF val = 0 THEN 0 ELSE IF val = 1 THEN 1 ELSE 2

\* C1: round trip. For every vector v of length D >= 1 whose elements are all
\* in {-1, 0, +1}, unpack_ternary(pack_ternary(v), D) returns a vector equal
\* to v element for element.
C1_RoundTrip ==
    (pstep = "unpacked" /\ IsTernary(vector) /\ Len(vector) >= 1)
        => (unpacked.raised = None /\ unpacked.values = vector)

\* a ternary vector whose length is not a multiple of 4, holding +1 and -1,
\* has made the round trip
C1_Witness ==
    /\ pstep = "unpacked" /\ IsTernary(vector)
    /\ Len(vector) = 6 /\ vector[1] = -1 /\ vector[5] = 1 /\ vector[6] = -1
    /\ unpacked.values = vector

\* C4: packing density. For every ternary vector v, pack_ternary(v) has
\* exactly ceil(len(v)/4) bytes.
C4_PackingDensity ==
    (pstep \in {"packed", "unpacked"} /\ IsTernary(vector))
        => Len(packed) = CeilDiv4(Len(vector))

\* a ternary vector of 5 elements was packed into 2 bytes
C4_Witness ==
    /\ pstep = "packed" /\ IsTernary(vector)
    /\ Len(vector) = 5 /\ Len(packed) = 2

\* C5: packed bit layout. Element 4k+j of a ternary vector is stored in byte
\* k at bits (7-2j)..(6-2j) as 0 -> 0b00, +1 -> 0b01, -1 -> 0b10; the fields
\* of the last byte past the end of the vector are 0b00; no field is 0b11.
C5_BitLayout ==
    (pstep \in {"packed", "unpacked"} /\ IsTernary(vector)) =>
        /\ \A i \in 0..(Len(vector) - 1) :
              /\ (i \div 4) < Len(packed)
              /\ FieldAt(packed, i \div 4, i % 4) = FormatCode(vector[i + 1])
        /\ \A k \in 0..(Len(packed) - 1) : \A j \in 0..3 :
              /\ packed[k + 1] \in Byte
              /\ FieldAt(packed, k, j) # 3
              /\ (4 * k + j >= Len(vector)) => FieldAt(packed, k, j) = 0

\* the vector <<1, -1, 0, 1, -1>> was packed into 0b01100001 0b10000000
C5_Witness ==
    /\ pstep = "packed"
    /\ vector = <<1, -1, 0, 1, -1>>
    /\ packed = <<97, 128>>

\* C2: unpack_ternary fails with a FormatError whenever one of the first
\* hd_dim 2-bit fields of the buffer holds the reserved code 0b11.
ReservedInFirst(bytes, dim) ==
    \E f \in 0..(Min(dim, 4 * Len(bytes)) - 1) : FieldAt(bytes, f \div 4, f % 4) = 3

C2_ReservedCodeFails ==
    (pstep = "unpacked" /\ ReservedInFirst(packed, hd_dim))
        => unpacked.raised = "FormatError"

\* C3: unpack_ternary fails with a FormatError whenever the buffer has fewer
\* than ceil(hd_dim/4) bytes; it never returns fewer than hd_dim elements.
C3_ShortBufferFails ==
    (pstep = "unpacked" /\ Len(packed) < CeilDiv4(hd_dim))
        => unpacked.raised = "FormatError"

(***************************************************************************)
(* The HDCTextEncoder runs.  Spec is a process that constructs encoder     *)
(* objects and calls encode on them in any order; EncodeSpec constructs    *)
(* one encoder and calls encode once, on longer texts.                     *)
(***************************************************************************)
Encoders == {1, 2}

Unbuilt == [built |-> FALSE, dimensions |-> 0, ngram_size |-> 0,
            position_vectors |-> <<>>, token_vectors |-> <<>>]

\* the texts of the model: words are single letters, whitespace is free
Texts(n) ==
    {t \in SeqsUpTo(Alphabet, n) :
        \A i \in 1..(Len(t) - 1) : IsSpace(t[i]) \/ IsSpace(t[i + 1])}
ProcTexts == Texts(MaxProcTextLen)

\* the seed torch gives its default generator when the process starts,
\* 67280421310721 = 0x3d30f19cd101, as the values of its hex digits
DefaultSeed == <<3, 13, 3, 0, 15, 1, 9, 12, 13, 1, 0, 1>>

Threads == {1, 2}
ThreadIdle == [pc |-> "idle", token |-> <<>>, drawn |-> <<>>, result |-> <<>>]

\* a fresh process: no encoder constructed, the generator as torch seeded it
Init ==
    /\ PackIdle
    /\ gen = manual_seed(HexMod(DefaultSeed, 16, 0))
    /\ vsa \in VsaModels
    /\ enc = [e \in Encoders |-> Unbuilt]
    /\ ret = NoRet
    /\ thr = [t \in Threads |-> ThreadIdle]
    /\ ObjIdle

\* a process in which other code has drawn from the generator before
InitEncode ==
    /\ PackIdle
    /\ gen \in GenStates
    /\ vsa \in VsaModels
    /\ enc = [e \in Encoders |-> Unbuilt]
    /\ ret = NoRet
    /\ thr = [t \in Threads |-> ThreadIdle]
    /\ ObjIdle

\* HDCTextEncoder(dimensions, ngram_size): __init__ sets the fields, starts
\* an empty token_vectors and draws the position vectors
Construct(e, dimensions, ngram_size) ==
    /\ ~enc[e].built
    /\ LET pv == generate_position_vectors(gen, dimensions, ngram_size)
       IN  /\ enc' = [enc EXCEPT ![e] =
                        [built |-> TRUE, dimensions |-> dimensions,
                         ngram_size |-> ngram_size,
                         position_vectors |-> pv.positions,
                         token_vectors |-> <<>>]]
           /\ gen' = pv.gen
    /\ UNCHANGED <<pstep, vector, packed, hd_dim, unpacked, vsa, ret, thr, tenc, call, mesh>>

\* encoder.encode(text): the whole call; ret records the call and its result,
\* hit = every symbol vector came from the cache, added = the new cache keys
EncodeCall(e, text) ==
    /\ enc[e].built
    /\ LET r == encode(enc[e], gen, text)
           before == DOMAIN enc[e].token_vectors
       IN  /\ enc' = [enc EXCEPT ![e].token_vectors = r.cache]
           /\ gen' = r.gen
           /\ ret' = [enc |-> e, text |-> text, vec |-> r.vec,
                      hit |-> (tokenize(text) # <<>>) /\ (DOMAIN r.cache = before),
                      added |-> (DOMAIN r.cache) \ before,
                      raised |-> r.raised]
    /\ UNCHANGED <<pstep, vector, packed, hd_dim, unpacked, vsa, thr, tenc, call, mesh>>

\* the encoders Spec constructs have ngram_size 1 or 2
Next ==
    \/ \E e \in Encoders, k \in {1, 2} : Construct(e, MaxDimensions, k)
    \/ \E e \in Encoders, t \in ProcTexts : EncodeCall(e, t)

Spec == Init /\ [][Next]_vars

NextEncode ==
    \/ \E d \in 2..MaxDimensions, k \in 1..MaxNgram : Construct(1, d, k)
    \/ \E t \in Texts(MaxTextLen) : ret = NoRet /\ EncodeCall(1, t)

EncodeSpec == InitEncode /\ [][NextEncode]_vars

(***************************************************************************)
(* ThreadSpec: two threads call _get_token_vector on encoder 1.  Each      *)
(* statement of the method is one step; the threads share the encoder's    *)
(* token_vectors and the process-wide generator.                           *)
(***************************************************************************)
Symbols == {<<"a">>, <<"b">>, PAD}

\* line 92: a thread inside _encode_ngram calls self._get_token_vector(token)
TCall(t, token) ==
    /\ thr[t].pc \in {"idle", "done"}
    /\ enc[1].built
    /\ thr' = [thr EXCEPT ![t] = [pc |-> "check", token |-> token,
                                  drawn |-> <<>>, result |-> <<>>]]
    /\ UNCHANGED <<pstep, vector, packed, hd_dim, unpacked, gen, vsa, enc, ret, tenc, call, mesh>>

\* line 62: if token not in self.token_vectors
TCheck(t) ==
    /\ thr[t].pc = "check"
    /\ thr' = [thr EXCEPT ![t].pc =
                 IF thr[t].token \in DOMAIN enc[1].token_vectors
                 THEN "return" ELSE "seed"]
    /\ UNCHANGED <<pstep, vector, packed, hd_dim, unpacked, gen, vsa, enc, ret, tenc, call, mesh>>

\* lines 64-65: seed = ...; torch.manual_seed(seed)
TSeed(t) ==
    /\ thr[t].pc = "seed"
    /\ gen' = manual_seed(TokenSeedState(thr[t].token))
    /\ thr' = [thr EXCEPT ![t].pc = "draw"]
    /\ UNCHANGED <<pstep, vector, packed, hd_dim, unpacked, vsa, enc, ret, tenc, call, mesh>>

\* lines 66-68, right-hand side: torchhd.random(1, self.dimensions)
TDraw(t) ==
    /\ thr[t].pc = "draw"
    /\ LET drawn == torchhd_random(gen, enc[1].dimensions)
       IN  /\ gen' = drawn.gen
           /\ thr' = [thr EXCEPT ![t].pc = "store", ![t].drawn = drawn.vec]
    /\ UNCHANGED <<pstep, vector, packed, hd_dim, unpacked, vsa, enc, ret, tenc, call, mesh>>

\* line 66, the assignment: self.token_vectors[token] = ...
TStore(t) ==
    /\ thr[t].pc = "store"
    /\ enc' = [enc EXCEPT ![1].token_vectors =
                 [k \in DOMAIN enc[1].token_vectors \cup {thr[t].token} |->
                     IF k = thr[t].token THEN thr[t].drawn
                     ELSE enc[1].token_vectors[k]]]
    /\ thr' = [thr EXCEPT ![t].pc = "return"]
    /\ UNCHANGED <<pstep, vector, packed, hd_dim, unpacked, gen, vsa, ret, tenc, call, mesh>>

\* line 70: return self.token_vectors[token]
TReturn(t) ==
    /\ thr[t].pc = "return"
    /\ thr' = [thr EXCEPT ![t].pc = "done",
                          ![t].result = enc[1].token_vectors[thr[t].token]]
    /\ UNCHANGED <<pstep, vector, packed, hd_dim, unpacked, gen, vsa, enc, ret, tenc, call, mesh>>

NextThread ==
    \/ Construct(1, MaxDimensions, 1)
    \/ \E t \in Threads, token \in Symbols : TCall(t, token)
    \/ \E t \in Threads : TCheck(t)
    \/ \E t \in Threads : TSeed(t)
    \/ \E t \in Threads : TDraw(t)
    \/ \E t \in Threads : TStore(t)
    \/ \E t \in Threads : TReturn(t)

ThreadSpec == Init /\ [][NextThread]_vars

(***************************************************************************)
(* Claims about HDCTextEncoder.encode.                                     *)
(***************************************************************************)
SameConfig(e1, e2) ==
    /\ enc[e1].built /\ enc[e2].built
    /\ enc[e1].dimensions = enc[e2].dimensions
    /\ enc[e1].ngram_size = enc[e2].ngram_size

\* what a first encode(text) returns on an encoder with the fields of e and
\* an empty cache
FirstEncoding(e, text) ==
    encode([enc[e] EXCEPT !.token_vectors = <<>>], 0, text).vec

\* C6: determinism on one encoder. In every state of the process, on every
\* constructed encoder and for every text, encode(text) returns the vector a
\* first call on that encoder returns, whatever the cache and the generator
\* hold by then; and no step changes the dimensions, ngram_size or position
\* vectors of a constructed encoder. So two calls encode(text) return
\* identical vectors, whatever calls happen before or between them.
C6_Determinism ==
    /\ [](\A e \in Encoders : \A t \in ProcTexts :
            enc[e].built => encode(enc[e], gen, t).vec = FirstEncoding(e, t))
    /\ [][\A e \in Encoders :
            enc[e].built =>
                /\ enc'[e].built
                /\ enc'[e].dimensions = enc[e].dimensions
                /\ enc'[e].ngram_size = enc[e].ngram_size
                /\ enc'[e].position_vectors = enc[e].position_vectors]_vars

\* encode(text) was just answered from the cache of an encoder that holds a
\* second symbol, while the other encoder has been used too; the generator
\* is no longer in the state the first call found
C6_Witness ==
    /\ ret.enc = 1 /\ ret.hit /\ ret.text = <<"a">>
    /\ <<"b">> \in DOMAIN enc[1].token_vectors
    /\ enc[2].built /\ DOMAIN enc[2].token_vectors # {}
    /\ Len(ret.vec) >= 2
    /\ ret.vec = FirstEncoding(1, <<"a">>)

\* C7: determinism across encoders. When encode(text) has returned on one
\* encoder and the next call is encode(text) on another encoder with the same
\* dimensions and ngram_size, the two returned vectors are identical.
C7_SameConfigSameEncoding ==
    [][(/\ ret.enc # 0 /\ ret'.enc # 0 /\ ret'.enc # ret.enc
        /\ ret'.text = ret.text
        /\ SameConfig(ret.enc, ret'.enc))
       => ret'.vec = ret.vec]_vars

\* encode("a") has returned on the second encoder after the first encoder,
\* of the same configuration but with other position vectors, encoded "a"
C7_Witness ==
    /\ ret.enc = 2 /\ ret.text = <<"a">> /\ ~ret.hit
    /\ SameConfig(1, 2)
    /\ enc[1].dimensions >= 2
    /\ <<"a">> \in DOMAIN enc[1].token_vectors
    /\ enc[1].position_vectors # enc[2].position_vectors
    /\ ret.vec = encode(enc[1], gen, <<"a">>).vec

\* the vector a run of _get_token_vector without interruption stores for a symbol
SequentialVector(token, dimensions) ==
    torchhd_random(manual_seed(TokenSeedState(token)), dimensions).vec

\* C8: concurrent encoding is safe. However the steps of two threads inside
\* _get_token_vector interleave, every symbol vector stored in the cache or
\* returned to a caller equals the vector a sequential run produces.
C8_ConcurrentSafe ==
    /\ \A k \in DOMAIN enc[1].token_vectors :
          enc[1].token_vectors[k] = SequentialVector(k, enc[1].dimensions)
    /\ \A t \in Threads :
          thr[t].pc = "done" =>
              thr[t].result = SequentialVector(thr[t].token, enc[1].dimensions)

\* the vector of window w of the last call, from the encoder's cache and
\* position vectors after the call
WindowVector(w) ==
    LET e == enc[ret.enc]
    IN  encode_ngram(e, e.token_vectors, gen,
                     Ngram(tokenize(ret.text), w - 1, e.ngram_size)).vec

\* the number of the n window vectors of the last call that have bit i set
WindowsSet(i) ==
    Cardinality({w \in 1..Len(tokenize(ret.text)) : WindowVector(w)[i] = 1})

\* C9: majority-vote bundling. For a text with n >= 1 windows, bit i of
\* encode(text) is 1 iff strictly more than n/2 of the window vectors have
\* bit i set (a tie gives 0); with n = 1 the result is the window vector.
C9_MajorityVote ==
    (ret.enc # 0 /\ Len(tokenize(ret.text)) >= 1) =>
        LET n == Len(tokenize(ret.text))
            D == enc[ret.enc].dimensions
        IN  /\ Len(ret.vec) = D
            /\ \A i \in 1..D :
                  /\ ret.vec[i] \in {0, 1}
                  /\ (ret.vec[i] = 1) <=> (2 * WindowsSet(i) > n)
            /\ (n = 1) => ret.vec = WindowVector(1)

\* a text of two windows was encoded on an encoder of two or more
\* dimensions: no window vector has a bit set (the exclusive-or of a symbol
\* vector and a positional code, both of elements -1 and +1, is False
\* everywhere), so no bit has a majority and the result is all zero
C9_Witness ==
    /\ ret.enc # 0
    /\ Len(tokenize(ret.text)) = 2
    /\ Len(ret.vec) >= 2
    /\ \A i \in 1..Len(ret.vec) : WindowsSet(i) = 0 /\ ret.vec[i] = 0

AllWhitespace(text) == \A i \in 1..Len(text) : text[i] = " "

\* C10: empty input. For the empty string and for a text of whitespace only,
\* encode returns the all-zero vector of length dimensions and adds nothing
\* to the symbol cache.
C10_EmptyInput ==
    (ret.enc # 0 /\ AllWhitespace(ret.text)) =>
        /\ ret.vec = Zeros(enc[ret.enc].dimensions)
        /\ ret.added = {}
        /\ DOMAIN enc[ret.enc].token_vectors = {}

\* encode was called on a text of two spaces
C10_Witness ==
    /\ ret.enc # 0
    /\ ret.text = <<" ", " ">>
    /\ ret.vec = Zeros(enc[ret.enc].dimensions)
    /\ Len(ret.vec) >= 2

(***************************************************************************)
(* NgramSpec: _encode_ngram called directly on one encoder, window after   *)
(* window.                                                                 *)
(***************************************************************************)
\* encoder._encode_ngram(window): the whole call; the cache and the generator
\* move as _get_token_vector moves them, call records the window and the
\* bound vector returned
EncodeNgramCall(e, window) ==
    /\ enc[e].built
    /\ LET r == encode_ngram(enc[e], enc[e].token_vectors, gen, window)
       IN  /\ enc' = [enc EXCEPT ![e].token_vectors = r.cache]
           /\ gen' = r.gen
           /\ call' = [op |-> "encode_ngram", self |-> e, args |-> <<window>>,
                       raised |-> r.raised, out |-> r.vec]
    /\ UNCHANGED <<pstep, vector, packed, hd_dim, unpacked, vsa, ret, thr, tenc, mesh>>

NextNgram ==
    \/ \E k \in 2..MaxNgram : Construct(1, MaxDimensions, k)
    \/ \E k \in 2..MaxNgram : \E w \in [1..k -> Symbols] :
          k = enc[1].ngram_size /\ EncodeNgramCall(1, w)

NgramSpec == Init /\ [][NextNgram]_vars

\* how often token s occurs in window w
Occurrences(w, s) == Cardinality({i \in 1..Len(w) : w[i] = s})

\* w2 holds the tokens of w1 in a different order, and at least two positions
\* hold tokens whose symbol vectors differ
Reordered(w1, w2, dimensions) ==
    /\ Len(w1) = Len(w2)
    /\ \A s \in Symbols : Occurrences(w1, s) = Occurrences(w2, s)
    /\ Cardinality({i \in 1..Len(w1) :
            SequentialVector(w1[i], dimensions) # SequentialVector(w2[i], dimensions)}) >= 2

\* C11: the n-gram binding retains token position. When _encode_ngram has
\* returned for one window and is then called on a window of the same tokens
\* in a different order (at least two positions hold tokens with different
\* symbol vectors), the two bound vectors differ.
C11_BindingKeepsPosition ==
    [][(/\ call.op = "encode_ngram" /\ call'.op = "encode_ngram"
        /\ call'.self = call.self
        /\ Reordered(call.args[1], call'.args[1], enc[call.self].dimensions))
       => call'.out # call.out]_vars

(***************************************************************************)
(* Floating-point values.  The comparators compute on float32 tensors and  *)
(* return Python floats (IEEE binary64); both round to nearest, ties to    *)
(* even.                                                                   *)
(*   A Python float is [s, e, m]: s * 0.m1 m2 ... m53 * 2^e, with s the    *)
(*   sign (0 for zero), m its 53 significant bits, first bit first, m1 = 1 *)
(*   (m is empty for zero).                                                *)
(*   A float32 is [s, k, e]: s * k * 2^e with 2^23 <= k < 2^24 (k = 0 for  *)
(*   zero).                                                                *)
(* Equal values have equal records.                                        *)
(***************************************************************************)
\* significant bits of a Python float
DoubleBits == 53

\* 2^n for n in 0..30
TwoTo(n) ==
    <<1, 2, 4, 8, 16, 32, 64, 128, 256, 512, 1024, 2048, 4096, 8192, 16384,
      32768, 65536, 131072, 262144, 524288, 1048576, 2097152, 4194304,
      8388608, 16777216, 33554432, 67108864, 134217728, 268435456,
      536870912, 1073741824>>[n + 1]

PyZero == [s |-> 0, e |-> 0, m |-> <<>>]
PyOne  == [s |-> 1, e |-> 1, m |-> [i \in 1..DoubleBits |-> IF i = 1 THEN 1 ELSE 0]]

\* the number of binary digits of n, 0 <= n < 2^31
BitLen(n) == IF n >= TwoTo(30) THEN 31
             ELSE CHOOSE k \in 0..30 : n < TwoTo(k) /\ (k = 0 \/ n >= TwoTo(k - 1))

\* the last w binary digits of n, first digit first
BitsOf(n, w) == [i \in 1..w |-> (n \div TwoTo(w - i)) % 2]

\* the positions of the first and of the last 1 in b (b holds a 1)
FirstOne(b) == CHOOSE j \in 1..Len(b) : b[j] = 1 /\ \A k \in 1..(j - 1) : b[k] = 0
LastOne(b)  == CHOOSE j \in 1..Len(b) : b[j] = 1 /\ \A k \in (j + 1)..Len(b) : b[k] = 0

\* the p digits b plus one unit in the last place; p + 1 digits when the
\* carry leaves the first digit
Incr(b) ==
    IF \A i \in 1..Len(b) : b[i] = 1
    THEN [i \in 1..(Len(b) + 1) |-> IF i = 1 THEN 1 ELSE 0]
    ELSE LET j == CHOOSE j \in 1..Len(b) : b[j] = 0 /\ \A k \in (j + 1)..Len(b) : b[k] = 1
         IN  [i \in 1..Len(b) |-> IF i < j THEN b[i] ELSE IF i = j THEN 1 ELSE 0]

\* the value 0.b * 2^e >= 0 (sticky: a non-zero rest lies beyond b) as a
\* Python float: rounded to 53 significant bits, to nearest, ties to even
PyRound(e, b, sticky) ==
    IF \A i \in 1..Len(b) : b[i] = 0 THEN PyZero
    ELSE LET f == FirstOne(b)
             n == Len(b) - f + 1
             d == [i \in 1..n |-> b[f + i - 1]]
             p == DoubleBits
         IN  IF n <= p
             THEN [s |-> 1, e |-> e - (f - 1), m |-> d \o [i \in 1..(p - n) |-> 0]]
             ELSE LET keep == SubSeq(d, 1, p)
                      rest == sticky \/ \E i \in (p + 2)..n : d[i] = 1
                      up   == d[p + 1] = 1 /\ (rest \/ keep[p] = 1)
                      r    == IF up THEN Incr(keep) ELSE keep
                  IN  [s |-> 1, e |-> e - (f - 1) + (Len(r) - p), m |-> SubSeq(r, 1, p)]

\* Python's a / b for integers 0 <= a, 0 < b < 128: the quotient's integer
\* part and 72 digits after the point, taken 24 at a time, then rounded
PyDiv(a, b) ==
    LET ip == a \div b
        r0 == a % b
        c1 == (r0 * TwoTo(24)) \div b
        r1 == (r0 * TwoTo(24)) % b
        c2 == (r1 * TwoTo(24)) \div b
        r2 == (r1 * TwoTo(24)) % b
        c3 == (r2 * TwoTo(24)) \div b
        r3 == (r2 * TwoTo(24)) % b
        w  == BitLen(ip)
    IN  PyRound(w, BitsOf(ip, w) \o BitsOf(c1, 24) \o BitsOf(c2, 24) \o BitsOf(c3, 24),
                r3 # 0)

\* Python's 1 - x for a float 0 <= x <= 1: the digits of x after the point
\* are complemented above its last 1, and the difference is rounded
PyOneMinus(x) ==
    IF x.s = 0 THEN PyOne
    ELSE IF x.e > 0 THEN PyZero
    ELSE LET F == [i \in 1..(0 - x.e) |-> 0] \o x.m
             j == LastOne(F)
             G == [i \in 1..j |-> IF i = j THEN 1 ELSE 1 - F[i]]
         IN  PyRound(0, G, FALSE)

\* the exact value s * K * 2^sh (0 <= K < 2^31) as a Python float
PyFromScaledInt(s, K, sh) ==
    IF K = 0 \/ s = 0 THEN PyZero
    ELSE [PyRound(BitLen(K) + sh, BitsOf(K, BitLen(K)), FALSE) EXCEPT !.s = s]

\* x < y and x <= y for Python floats x, y >= 0
PyLess(x, y) ==
    IF y.s = 0 THEN FALSE
    ELSE IF x.s = 0 THEN TRUE
    ELSE IF x.e # y.e THEN x.e < y.e
    ELSE \E i \in 1..DoubleBits :
            x.m[i] < y.m[i] /\ \A j \in 1..(i - 1) : x.m[j] = y.m[j]
PyLeq(x, y) == x = y \/ PyLess(x, y)

(***************************************************************************)
(* float32 tensor arithmetic of TernaryHDCEncoder.cosine_similarity.  The  *)
(* vectors hold small integers, so torch.dot and the sum of squares inside *)
(* torch.norm are exact; the square root, the product of the norms and the *)
(* quotient are each rounded to float32.  Numbers of up to 48 bits are     *)
(* kept as a pair <<hi, lo>> = hi * 2^24 + lo.                             *)
(***************************************************************************)
F32Zero == [s |-> 0, k |-> 0, e |-> 0]

\* a * b for a, b < 2^24, from the 12-bit halves of a and b
Mul24(a, b) ==
    LET ah == a \div 4096
        al == a % 4096
        bh == b \div 4096
        bl == b % 4096
        mid == ah * bl + al * bh
        lo  == (mid % 4096) * 4096 + al * bl
    IN  <<ah * bh + (mid \div 4096) + (lo \div TwoTo(24)), lo % TwoTo(24)>>

\* k0 * 2^e0 with k0 in [2^23, 2^24), plus one unit in the last place if up
F32Up(s, k0, e0, up) ==
    IF ~up THEN [s |-> s, k |-> k0, e |-> e0]
    ELSE IF k0 + 1 = TwoTo(24) THEN [s |-> s, k |-> TwoTo(23), e |-> e0 + 1]
    ELSE [s |-> s, k |-> k0 + 1, e |-> e0]

\* float32 x * y for x, y >= 0: the 48-bit product rounded to 24 bits
F32Mul(x, y) ==
    IF x.s = 0 \/ y.s = 0 THEN F32Zero
    ELSE LET P == Mul24(x.k, y.k)
             big == P[1] >= TwoTo(23)
             k0   == IF big THEN P[1] ELSE 2 * P[1] + (P[2] \div TwoTo(23))
             rem  == IF big THEN P[2] ELSE P[2] % TwoTo(23)
             half == IF big THEN TwoTo(23) ELSE TwoTo(22)
             up   == rem > half \/ (rem = half /\ k0 % 2 = 1)
         IN  F32Up(1, k0, x.e + y.e + (IF big THEN 24 ELSE 23), up)

\* floor(sqrt(hi * 2^24)), digit by digit from bit number bit down
RECURSIVE ISqrt(_, _, _)
ISqrt(hi, r, bit) ==
    IF bit < 0 THEN r
    ELSE LET c  == r + TwoTo(bit)
             sq == Mul24(c, c)
         IN  IF sq[1] < hi \/ (sq[1] = hi /\ sq[2] = 0)
             THEN ISqrt(hi, c, bit - 1)
             ELSE ISqrt(hi, r, bit - 1)

\* float32 sqrt(n) for an integer 0 <= n < 2^22, correctly rounded: with
\* hi = n * 4^u in [2^22, 2^24), N = hi * 2^24 and r = floor(sqrt(N)), the
\* root r * 2^-(u+12) is rounded up when N > r^2 + r
F32Sqrt(n) ==
    IF n = 0 THEN F32Zero
    ELSE LET u  == (24 - BitLen(n)) \div 2
             hi == n * TwoTo(2 * u)
             r  == ISqrt(hi, 0, 23)
             sq == Mul24(r, r)
             up == hi > sq[1] + ((sq[2] + r) \div TwoTo(24))
         IN  F32Up(1, r, 0 - (u + 12), up)

\* float32 d / y for an integer |d| < 2^24 and a float32 y > 0: the
\* quotient of the mantissas to 30 digits, taken 6 at a time, then rounded
F32DivInt(d, y) ==
    IF d = 0 THEN F32Zero
    ELSE LET a  == IF d < 0 THEN 0 - d ELSE d
             j  == 24 - BitLen(a)
             A  == a * TwoTo(j)
             q0 == IF A >= y.k THEN 1 ELSE 0
             r0 == A - q0 * y.k
             c1 == (r0 * 64) \div y.k
             r1 == (r0 * 64) % y.k
             c2 == (r1 * 64) \div y.k
             r2 == (r1 * 64) % y.k
             c3 == (r2 * 64) \div y.k
             r3 == (r2 * 64) % y.k
             c4 == (r3 * 64) \div y.k
             r4 == (r3 * 64) % y.k
             c5 == (r4 * 64) \div y.k
             r5 == (r4 * 64) % y.k
             Q  == ((((q0 * 64 + c1) * 64 + c2) * 64 + c3) * 64 + c4) * 64 + c5
             sh == IF q0 = 1 THEN 7 ELSE 6
             k0   == Q \div TwoTo(sh)
             rem  == Q % TwoTo(sh)
             half == TwoTo(sh - 1)
             up   == rem > half \/ (rem = half /\ (r5 # 0 \/ k0 % 2 = 1))
         IN  F32Up(IF d < 0 THEN -1 ELSE 1, k0, sh - 30 - j - y.e, up)

\* Python's (x + 1) / 2 on the float x = similarity.item(): the sum has at
\* most 31 significant bits (|x| >= 2^-7, |x| < 2^6), so both steps are exact
HalfOnePlus(x) ==
    IF x.s = 0 THEN PyFromScaledInt(1, 1, -1)
    ELSE LET K == x.s * x.k + TwoTo(0 - x.e)
         IN  PyFromScaledInt(IF K < 0 THEN -1 ELSE 1, IF K < 0 THEN 0 - K ELSE K, x.e - 1)

(***************************************************************************)
(* The two comparators.                                                    *)
(***************************************************************************)
\* the binary comparator without the "1 -": the normalized Hamming distance
hdc_cosine_similarity_distance(dimensions, vec1, vec2) ==
    LET diff == logical_xor(vec1, vec2)
        hamming_distance == Cardinality({i \in 1..Len(diff) : diff[i] = 1})
    IN  IF dimensions = 0
        THEN [raised |-> "ZeroDivisionError", out |-> PyZero]
        ELSE [raised |-> None, out |-> PyDiv(hamming_distance, dimensions)]

\* HDCTextEncoder.cosine_similarity(vec1, vec2) on an encoder with the given
\* dimensions, for vectors of that length: diff.sum().item() counts the True
\* positions, then 1 - (hamming_distance / self.dimensions) in Python floats
hdc_cosine_similarity(dimensions, vec1, vec2) ==
    LET diff == logical_xor(vec1, vec2)
        hamming_distance == Cardinality({i \in 1..Len(diff) : diff[i] = 1})
    IN  IF dimensions = 0
        THEN [raised |-> "ZeroDivisionError", out |-> PyZero]
        ELSE [raised |-> None, out |-> PyOneMinus(PyDiv(hamming_distance, dimensions))]

\* torch.dot(a, b) and the sum of squares inside torch.norm(a), from element i on
RECURSIVE DotFrom(_, _, _)
DotFrom(a, b, i) == IF i > Len(a) THEN 0 ELSE a[i] * b[i] + DotFrom(a, b, i + 1)
Dot(a, b) == DotFrom(a, b, 1)

\* torch.norm(a): the float32 square root of the sum of squares
Norm(a) == F32Sqrt(Dot(a, a))

\* the ternary comparator dividing by norm1 * norm1
ternary_cosine_similarity_norm1(vec1, vec2) ==
    LET dot_product == Dot(vec1, vec2)
        norm1 == Norm(vec1)
        norm2 == Norm(vec2)
    IN  IF norm1.s = 0 \/ norm2.s = 0
        THEN [raised |-> None, out |-> PyZero]
        ELSE [raised |-> None,
              out |-> HalfOnePlus(F32DivInt(dot_product, F32Mul(norm1, norm1)))]

\* TernaryHDCEncoder.cosine_similarity(vec1, vec2) for vectors of equal
\* length: 0.0 when a norm is zero, otherwise the float32 quotient
\* dot / (norm1 * norm2) moved to [0, 1] in Python floats
ternary_cosine_similarity(vec1, vec2) ==
    LET dot_product == Dot(vec1, vec2)
        norm1 == Norm(vec1)
        norm2 == Norm(vec2)
    IN  IF norm1.s = 0 \/ norm2.s = 0
        THEN [raised |-> None, out |-> PyZero]
        ELSE [raised |-> None,
              out |-> HalfOnePlus(F32DivInt(dot_product, F32Mul(norm1, norm2)))]

(***************************************************************************)
(* TernaryHDCEncoder.__init__.  The sentence-embedding model is outside    *)
(* the repository; of it the object keeps base_dim.  torch.randn draws     *)
(* the projection from the process-wide generator after manual_seed(42).   *)
(***************************************************************************)
\* get_sentence_embedding_dimension() of the base model, in the model
BaseDim == 1
\* torch.manual_seed(42)
ProjectionSeed == 42

\* the sample torch.randn draws in generator state g
RandnOf(g) == <<-2, -1, 1, 2>>[(g \div 4) + 1]

\* n samples of torch.randn from state g on: [vals, gen]
RECURSIVE RandnLoop(_, _, _)
RandnLoop(g, n, acc) ==
    IF n = 0 THEN [vals |-> acc, gen |-> g]
    ELSE RandnLoop(GenNext(g), n - 1, Append(acc, RandnOf(GenNext(g))))

\* a sparsity is a fraction <<numerator, denominator>>
DefaultSparsity == <<7, 10>>

\* TernaryHDCEncoder(hd_dim, sparsity=sparsity): the fields are stored as
\* given; projection = randn(base_dim, hd_dim) / sqrt(base_dim), row by row
ConstructTernary(hd, sparsity) ==
    /\ ~tenc.built
    /\ LET drawn == RandnLoop(manual_seed(ProjectionSeed % 16), BaseDim * hd, <<>>)
           scale == F32Sqrt(BaseDim)
       IN  /\ tenc' = [built |-> TRUE, hd_dim |-> hd, sparsity |-> sparsity,
                       base_dim |-> BaseDim,
                       projection |->
                           [r \in 1..BaseDim |->
                               [c \in 1..hd |-> F32DivInt(drawn.vals[(r - 1) * hd + c], scale)]]]
           /\ gen' = drawn.gen
    /\ UNCHANGED <<pstep, vector, packed, hd_dim, unpacked, vsa, enc, ret, thr, call, mesh>>

(***************************************************************************)
(* SimSpec: one encoder, of either class, is constructed and one           *)
(* comparator call is made on it.                                          *)
(***************************************************************************)
BitVectors(n) == [1..n -> {0, 1}]
TernaryVectors(n) == [1..n -> Ternary]

\* encoder.cosine_similarity(vec1, vec2) on HDCTextEncoder e
BinarySimilarityCall(e, vec1, vec2) ==
    /\ enc[e].built
    /\ LET r == hdc_cosine_similarity(enc[e].dimensions, vec1, vec2)
       IN  call' = [op |-> "hdc_cosine_similarity", self |-> e, args |-> <<vec1, vec2>>,
                    raised |-> r.raised, out |-> r.out]
    /\ UNCHANGED <<pstep, vector, packed, hd_dim, unpacked, gen, vsa, enc, ret, thr, tenc, mesh>>

\* encoder.cosine_similarity(vec1, vec2) on the TernaryHDCEncoder
TernarySimilarityCall(vec1, vec2) ==
    /\ tenc.built
    /\ LET r == ternary_cosine_similarity(vec1, vec2)
       IN  call' = [op |-> "ternary_cosine_similarity", self |-> 0, args |-> <<vec1, vec2>>,
                    raised |-> r.raised, out |-> r.out]
    /\ UNCHANGED <<pstep, vector, packed, hd_dim, unpacked, gen, vsa, enc, ret, thr, tenc, mesh>>

NextSim ==
    \/ \E d \in 1..MaxDimensions : ~tenc.built /\ Construct(1, d, 1)
    \/ \E hd \in 1..MaxHdDim : ~enc[1].built /\ ConstructTernary(hd, DefaultSparsity)
    \/ \E d \in 1..MaxDimensions : \E a, b \in BitVectors(d) :
          call = NoCall /\ d = enc[1].dimensions /\ BinarySimilarityCall(1, a, b)
    \/ \E hd \in 1..MaxHdDim : \E a, b \in TernaryVectors(hd) :
          call = NoCall /\ hd = tenc.hd_dim /\ TernarySimilarityCall(a, b)

SimSpec == Init /\ [][NextSim]_vars

(***************************************************************************)
(* Claims about the comparators.                                           *)
(***************************************************************************)
BinaryCallDone  == call.op = "hdc_cosine_similarity" /\ call.raised = None
TernaryCallDone == call.op = "ternary_cosine_similarity" /\ call.raised = None

\* the number of positions where a and b agree
Agree(a, b) == Cardinality({i \in 1..Len(a) : a[i] = b[i]})

IsZeroVector(a) == \A i \in 1..Len(a) : a[i] = 0

\* y + 2^-53 for a Python float 0 < y < 1
PlusTiny(y) ==
    LET F == [i \in 1..(0 - y.e) |-> 0] \o y.m
        H == Incr(SubSeq(F, 1, DoubleBits))
    IN  PyRound(Len(H) - DoubleBits, H \o SubSeq(F, DoubleBits + 1, Len(F)), FALSE)

\* |x - y| <= 2^-53 for Python floats in [0, 1]
Within53(x, y) ==
    \/ x = y
    \/ /\ x.s = 1 /\ y.s = 1 /\ x.e <= 0 /\ y.e <= 0
       /\ \/ PyLeq(y, x) /\ PyLeq(x, PlusTiny(y))
          \/ PyLeq(x, y) /\ PyLeq(y, PlusTiny(x))

\* D is a power of two
IsPow2(D) == \E k \in 0..30 : D = TwoTo(k)

\* C12 as stated: binary similarity. For two boolean hypervectors a, b of
\* length D, HDCTextEncoder.cosine_similarity(a, b) equals (number of
\* positions where a and b agree) / D, and so lies in [0, 1].
C12_AgreeOverD ==
    BinaryCallDone =>
        LET D == enc[call.self].dimensions
        IN  /\ call.out = PyDiv(Agree(call.args[1], call.args[2]), D)
            /\ PyLeq(PyZero, call.out) /\ PyLeq(call.out, PyOne)

\* C12, amended: cosine_similarity(a, b) is the Python float
\* 1 - (D - agree) / D. It lies in [0, 1]; it equals the float agree / D
\* whenever D is a power of two or agree is 0 or D, and it never differs
\* from the float agree / D by more than 2^-53.
C12_AgreeOverDRounded ==
    BinaryCallDone =>
        LET D == enc[call.self].dimensions
            agree == Agree(call.args[1], call.args[2])
        IN  /\ call.out = PyOneMinus(PyDiv(D - agree, D))
            /\ PyLeq(PyZero, call.out) /\ PyLeq(call.out, PyOne)
            /\ (IsPow2(D) \/ agree \in {0, D}) => call.out = PyDiv(agree, D)
            /\ Within53(call.out, PyDiv(agree, D))

\* two vectors of length 3 that agree in 2 positions were compared, and the
\* result is not the float 2 / 3
C12_Witness ==
    /\ BinaryCallDone
    /\ enc[call.self].dimensions = 3
    /\ Agree(call.args[1], call.args[2]) = 2
    /\ call.out = PyOneMinus(PyDiv(1, 3))
    /\ call.out # PyDiv(2, 3)

\* C13: symmetry. For equal-length vectors a and b, either comparator
\* returns for (a, b) what it returns for (b, a), zero vectors included.
C13_Symmetry ==
    /\ BinaryCallDone =>
          hdc_cosine_similarity(enc[call.self].dimensions, call.args[2], call.args[1]).out
              = call.out
    /\ TernaryCallDone =>
          ternary_cosine_similarity(call.args[2], call.args[1]).out = call.out

\* the ternary comparator was called on a zero vector and a non-zero vector
C13_Witness ==
    /\ TernaryCallDone
    /\ Len(call.args[1]) = 3
    /\ IsZeroVector(call.args[1]) /\ ~IsZeroVector(call.args[2])
    /\ call.out = PyZero

\* C14: self-similarity. For both comparators, similarity(a, a) is 1.0 for
\* every vector a with a non-zero element and 0.0 for the all-zero vector.
C14_SelfSimilarity ==
    ((BinaryCallDone \/ TernaryCallDone) /\ call.args[1] = call.args[2]) =>
        call.out = (IF IsZeroVector(call.args[1]) THEN PyZero ELSE PyOne)

\* C15: degenerate similarity. The ternary comparator returns exactly 0.0,
\* without an error, whenever a or b is the all-zero vector, and otherwise
\* a value in [0, 1].
C15_DegenerateAndRange ==
    (call.op = "ternary_cosine_similarity") =>
        /\ call.raised = None
        /\ (IsZeroVector(call.args[1]) \/ IsZeroVector(call.args[2])) => call.out = PyZero
        /\ call.out.s >= 0 /\ PyLeq(call.out, PyOne)

(***************************************************************************)
(* TernaryHDCEncoder.ternarize on one row of the batch.  Input values are  *)
(* integers that float32 holds exactly and a sparsity is a fraction        *)
(* <<p, q>> for the Python float p/q.  torch.quantile computes in the      *)
(* tensor's dtype, float32: the sparsity becomes a float32 tensor, rank =  *)
(* q * (n - 1), weight = rank - floor(rank), and the sorted values below   *)
(* and above the rank are interpolated by lerp, every operation rounded to *)
(* float32.  The threshold is a float32 [s, k, e].  A number on the way to *)
(* a rounding is kept as [n, r, t]: n + (r + d) / 2^30 with 0 <= r < 2^30, *)
(* d = 0 if t is FALSE and 0 < d < 1 if t is TRUE.  An intermediate value  *)
(* that is used more than once is bound as the one element of a set, so    *)
(* that it is computed once.                                               *)
(***************************************************************************)
InputValues == (-3..3) \cup {16777216, 16777218, 16777220}
Sparsities == {<<1, 4>>, <<3, 10>>, <<1, 2>>, <<7, 10>>, <<3, 4>>}

Abs(x) == IF x < 0 THEN 0 - x ELSE x

\* torch.abs(vectors)
AbsVector(v) == [i \in 1..Len(v) |-> Abs(v[i])]

\* element number k (0-based) of the values of a in ascending order
KthSmallest(a, k) ==
    CHOOSE x \in {a[i] : i \in 1..Len(a)} :
        /\ Cardinality({i \in 1..Len(a) : a[i] <= x}) >= k + 1
        /\ Cardinality({i \in 1..Len(a) : a[i] < x}) <= k

\* k * 2^e for 0 <= k < 2^24 and -54 <= e <= 6, as [n, r, t]
FixOfScaled(k, e) ==
    IF e >= 0 THEN [n |-> k * TwoTo(e), r |-> 0, t |-> FALSE]
    ELSE IF e >= -30
         THEN [n |-> IF e <= -24 THEN 0 ELSE k \div TwoTo(0 - e),
               r |-> (k % TwoTo(0 - e)) * TwoTo(30 + e),
               t |-> FALSE]
         ELSE [n |-> 0,
               r |-> k \div TwoTo(0 - e - 30),
               t |-> k % TwoTo(0 - e - 30) # 0]

\* a float32 x >= 0 as [n, r, t]
FixOfFloat(x) ==
    CHOOSE f \in {IF v.s = 0 THEN [n |-> 0, r |-> 0, t |-> FALSE]
                  ELSE FixOfScaled(v.k, v.e) : v \in {x}} : TRUE

\* the exact product of the float32 values x, y >= 0 as [n, r, t]
FixOfProduct(x, y) ==
    CHOOSE f \in
        {IF a.s = 0 \/ b.s = 0 THEN [n |-> 0, r |-> 0, t |-> FALSE]
         ELSE LET hi == FixOfScaled(Mul24(a.k, b.k)[1], a.e + b.e + 24)
                  lo == FixOfScaled(Mul24(a.k, b.k)[2], a.e + b.e)
              IN  [n |-> hi.n + lo.n + ((hi.r + lo.r) \div TwoTo(30)),
                   r |-> (hi.r + lo.r) % TwoTo(30),
                   t |-> hi.t \/ lo.t] : a \in {x}, b \in {y}} : TRUE

\* i + p and i - p for an integer i >= 0 and p = [n, r, t] with p <= i
FixAdd(i, p) == [p EXCEPT !.n = i + p.n]
FixSub(i, p) ==
    CHOOSE f \in
        {IF v.r = 0 /\ ~v.t THEN [n |-> i - v.n, r |-> 0, t |-> FALSE]
         ELSE [n |-> i - v.n - 1,
               r |-> TwoTo(30) - v.r - (IF v.t THEN 1 ELSE 0),
               t |-> v.t] : v \in {p}} : TRUE

\* [n, r, t] rounded to the nearest float32, ties to the even mantissa
RoundFix(x) ==
    CHOOSE f \in
        {IF v.n = 0 /\ v.r = 0 THEN F32Zero
         ELSE IF v.n >= TwoTo(24)
         THEN LET sh   == BitLen(v.n) - 24
                  k0   == v.n \div TwoTo(sh)
                  rem  == v.n % TwoTo(sh)
                  half == TwoTo(sh - 1)
                  up   == rem > half \/ (rem = half /\ (v.r > 0 \/ v.t \/ k0 % 2 = 1))
              IN  F32Up(1, k0, sh, up)
         ELSE IF v.n >= 1
         THEN LET j    == 24 - BitLen(v.n)
                  k0   == v.n * TwoTo(j) + (v.r \div TwoTo(30 - j))
                  rem  == v.r % TwoTo(30 - j)
                  half == TwoTo(29 - j)
                  up   == rem > half \/ (rem = half /\ (v.t \/ k0 % 2 = 1))
              IN  F32Up(1, k0, 0 - j, up)
         ELSE IF v.r >= TwoTo(24)
         THEN LET sh   == BitLen(v.r) - 24
                  k0   == v.r \div TwoTo(sh)
                  rem  == v.r % TwoTo(sh)
                  half == TwoTo(sh - 1)
                  up   == rem > half \/ (rem = half /\ (v.t \/ k0 % 2 = 1))
              IN  F32Up(1, k0, sh - 30, up)
         ELSE [s |-> 1, k |-> v.r * TwoTo(24 - BitLen(v.r)), e |-> BitLen(v.r) - 54]
         : v \in {x}} : TRUE

\* an integer 0 <= n < 2^31 as a float32 tensor element
F32FromInt(n) == RoundFix([n |-> n, r |-> 0, t |-> FALSE])

\* lerp(start, end, weight) of ATen on float32, for integers 0 <= start <=
\* end and a weight in [0, 1): start + weight * (end - start) when weight <
\* 0.5, else end - (end - start) * (1 - weight).  The kernel rounds the
\* product and the sum separately on some elements and evaluates them as one
\* fused multiply-add on others; fused says which.
lerp(start, end, weight, fused) ==
    CHOOSE f \in UNION
        {{IF small THEN RoundFix(FixAdd(lo, prod)) ELSE RoundFix(FixSub(hi, prod)) :
             prod \in {IF fused THEN FixOfProduct(coeff, diff)
                       ELSE FixOfFloat(F32Mul(coeff, diff))}} :
         lo \in {start}, hi \in {end}, small \in {FixOfFloat(weight).r < TwoTo(29)},
         diff \in {F32FromInt(end - start)},
         coeff \in {IF FixOfFloat(weight).r < TwoTo(29) THEN weight
                    ELSE RoundFix(FixSub(1, FixOfFloat(weight)))}} : TRUE

\* torch.quantile's rank and weight for a row of n values and q = p/d in
\* [0, 1]: q as a float32, rank = q * (n - 1) in float32, as [n, r, t], and
\* weight = rank - floor(rank)
QuantileRank(n, q) ==
    CHOOSE rw \in UNION
        {{[rank |-> rank, weight |-> RoundFix([rank EXCEPT !.n = 0])] :
             rank \in {FixOfFloat(F32Mul(q32, n1))}} :
         q32 \in {F32DivInt(q[1], d32) : d32 \in {F32FromInt(q[2])}},
         n1 \in {F32FromInt(n - 1)}} : TRUE

\* quantile at the complement of q: the threshold that keeps the fraction q
\* of the values instead of zeroing it
quantile_complement(a, q, fused) ==
    CHOOSE t \in
        {lerp(KthSmallest(a, rw.rank.n),
              KthSmallest(a, IF rw.weight.s = 0 THEN rw.rank.n ELSE rw.rank.n + 1),
              rw.weight, fused) : rw \in {QuantileRank(Len(a), <<q[2] - q[1], q[2]>>)}} : TRUE

\* torch.quantile(a, q) with linear interpolation, for a non-empty row a and
\* q = p/d in [0, 1]: the sorted values at floor(rank) and ceil(rank) are
\* interpolated by lerp with weight rank - floor(rank)
quantile(a, q, fused) ==
    CHOOSE t \in
        {lerp(KthSmallest(a, rw.rank.n),
              KthSmallest(a, IF rw.weight.s = 0 THEN rw.rank.n ELSE rw.rank.n + 1),
              rw.weight, fused) : rw \in {QuantileRank(Len(a), q)}} : TRUE

\* x > t and x < -t for an integer x and a float32 t >= 0
Above(x, t) == x > FixOfFloat(t).n
Below(x, t) == 0 - x > FixOfFloat(t).n

\* |x| = t for an integer x and a float32 t >= 0
OnThreshold(x, t) == FixOfFloat(t).r = 0 /\ ~FixOfFloat(t).t /\ Abs(x) = FixOfFloat(t).n

\* ternarize with the boundary values kept: >= and <= in place of > and <
ternarize_inclusive(sparsity, v, fused) ==
    IF Len(v) = 0 \/ sparsity[1] < 0 \/ sparsity[1] > sparsity[2]
    THEN [raised |-> "RuntimeError", out |-> <<>>, threshold |-> F32Zero]
    ELSE CHOOSE r \in
             {LET plus  == [i \in 1..Len(v) |->
                              IF Above(v[i], threshold)
                                 \/ (v[i] >= 0 /\ OnThreshold(v[i], threshold))
                              THEN 1 ELSE 0]
                  minus == [i \in 1..Len(v) |->
                              IF Below(v[i], threshold)
                                 \/ (v[i] <= 0 /\ OnThreshold(v[i], threshold))
                              THEN -1 ELSE plus[i]]
              IN  [raised |-> None, out |-> minus, threshold |-> threshold] :
                 threshold \in {quantile(AbsVector(v), sparsity, fused)}} : TRUE

\* ternarize(vectors) for one row v on an encoder with the given sparsity:
\* torch.quantile raises for an empty row and for q outside [0, 1];
\* otherwise the row of zeros gets 1.0 where v > threshold and then -1.0
\* where v < -threshold
ternarize(sparsity, v, fused) ==
    IF Len(v) = 0 \/ sparsity[1] < 0 \/ sparsity[1] > sparsity[2]
    THEN [raised |-> "RuntimeError", out |-> <<>>, threshold |-> F32Zero]
    ELSE CHOOSE r \in
             {LET plus  == [i \in 1..Len(v) |-> IF Above(v[i], threshold) THEN 1 ELSE 0]
                  minus == [i \in 1..Len(v) |->
                              IF Below(v[i], threshold) THEN -1 ELSE plus[i]]
              IN  [raised |-> None, out |-> minus, threshold |-> threshold] :
                 threshold \in {quantile(AbsVector(v), sparsity, fused)}} : TRUE

\* a float32 t >= 0 with e >= -30 as the fraction <<numerator, denominator>>
FractionOf(t) ==
    IF t.s = 0 THEN <<0, 1>>
    ELSE IF t.e >= 0 THEN <<t.k * TwoTo(t.e), 1>> ELSE <<t.k, TwoTo(0 - t.e)>>

\* ternarize that keeps the threshold of its last row in self.sparsity
TernarizeCallStoring(v) ==
    /\ tenc.built
    /\ \E fused \in BOOLEAN : \E r \in {ternarize(tenc.sparsity, v, fused)} :
          /\ call' = [op |-> "ternarize", self |-> 0, args |-> <<v>>,
                      raised |-> r.raised, out |-> r.out, threshold |-> r.threshold]
          /\ tenc' = [tenc EXCEPT !.sparsity = FractionOf(r.threshold)]
    /\ UNCHANGED <<pstep, vector, packed, hd_dim, unpacked, gen, vsa, enc, ret, thr, mesh>>

\* encoder.ternarize(vectors) on the TernaryHDCEncoder, for a batch of one
\* row; call.threshold keeps the threshold the call computed
TernarizeCall(v) ==
    /\ tenc.built
    /\ \E fused \in BOOLEAN : \E r \in {ternarize(tenc.sparsity, v, fused)} :
          call' = [op |-> "ternarize", self |-> 0, args |-> <<v>>,
                   raised |-> r.raised, out |-> r.out, threshold |-> r.threshold]
    /\ UNCHANGED <<pstep, vector, packed, hd_dim, unpacked, gen, vsa, enc, ret, thr, tenc, mesh>>

NextTernarize ==
    \/ \E hd \in 1..MaxHdDim, sp \in Sparsities : ConstructTernary(hd, sp)
    \/ \E hd \in 1..MaxHdDim : \E v \in [1..hd -> InputValues] :
          call = NoCall /\ hd = tenc.hd_dim /\ TernarizeCall(v)

TernarizeSpec == Init /\ [][NextTernarize]_vars

(***************************************************************************)
(* Claims about ternarize.                                                 *)
(***************************************************************************)
TernarizeDone == call.op = "ternarize" /\ call.raised = None

\* the threshold of the last ternarize call
LastThreshold == call.threshold

Sign(x) == IF x > 0 THEN 1 ELSE IF x < 0 THEN -1 ELSE 0

\* C16: ternarize element policy. With t >= 0 the threshold of the row (the
\* s-quantile of its absolute values), every output element is +1 if the
\* input value > t, -1 if the input value < -t and 0 otherwise (a value
\* with |value| = t gives 0); every output element is in {-1, 0, +1} and a
\* non-zero output has the sign of its input.
C16_ElementPolicy ==
    TernarizeDone =>
        LET v == call.args[1]
            t == LastThreshold
            whole == FixOfFloat(t).n
            exact == FixOfFloat(t).r = 0 /\ ~FixOfFloat(t).t
        IN  /\ t.s >= 0
            /\ t \in {quantile(AbsVector(v), tenc.sparsity, fused) : fused \in BOOLEAN}
            /\ Len(call.out) = Len(v)
            /\ \A i \in 1..Len(v) :
                  /\ call.out[i] = (IF v[i] > whole THEN 1
                                    ELSE IF 0 - v[i] > whole THEN -1 ELSE 0)
                  /\ call.out[i] \in Ternary
                  /\ call.out[i] # 0 => call.out[i] = Sign(v[i])
                  /\ (exact /\ Abs(v[i]) = whole) => call.out[i] = 0

\* a row was ternarized that holds a value below minus the threshold, which
\* became -1, and a non-zero value on the threshold, which became 0
C16_Witness ==
    /\ TernarizeDone
    /\ \E j, k \in 1..Len(call.out) :
          /\ call.args[1][j] < 0 /\ call.out[j] = -1
          /\ call.args[1][k] # 0 /\ call.out[k] = 0
          /\ OnThreshold(call.args[1][k], LastThreshold)

\* the number of zero elements of the last result
ZeroCount == Cardinality({i \in 1..Len(call.out) : call.out[i] = 0})

\* |zeros - s * D| <= 1 for the last call, with s = p/q: |q * zeros - p * D| <= q
NearSparsity ==
    LET q == tenc.sparsity[2]
        d == q * ZeroCount - tenc.sparsity[1] * Len(call.out)
    IN  d <= q /\ 0 - d <= q

\* no element of the row has the absolute value the call computed as threshold
NoTies(v) == \A i \in 1..Len(v) : ~OnThreshold(v[i], LastThreshold)

DistinctMagnitudes(v) == \A i, j \in 1..Len(v) : i # j => Abs(v[i]) # Abs(v[j])

\* C17 as stated: sparsity bound. For every input row v of length D and
\* sparsity s in (0, 1), the number of zero elements of ternarize(v)
\* differs from s * D by at most one.
C17_SparsityBound == TernarizeDone => NearSparsity

\* C17, amended: for every input row v of length D none of whose elements
\* has an absolute value equal to the threshold the call computes, and
\* sparsity s in (0, 1), the number of zero elements of ternarize(v)
\* differs from s * D by at most one.
C17_SparsityBoundNoTies ==
    (TernarizeDone /\ NoTies(call.args[1])) => NearSparsity

\* a row of three different magnitudes was ternarized at sparsity 0.7, the
\* threshold fell between two of them and two elements became zero
C17_Witness ==
    /\ TernarizeDone
    /\ tenc.sparsity = <<7, 10>>
    /\ Len(call.args[1]) = 3 /\ NoTies(call.args[1])
    /\ ZeroCount = 2

\* a row of three different magnitudes was ternarized at sparsity 0.3 and the
\* float32 interpolation put the threshold on its second magnitude: two
\* zeros, where s * D = 0.9
C17_RoundedOntoElement ==
    /\ TernarizeDone
    /\ tenc.sparsity = <<3, 10>>
    /\ Len(call.args[1]) = 3 /\ DistinctMagnitudes(call.args[1])
    /\ ~NoTies(call.args[1])
    /\ ZeroCount = 2

(***************************************************************************)
(* ApiSpec: a process constructs one encoder, of either class and with any *)
(* configuration the constructors accept, and calls its methods in any     *)
(* order.  Neither __init__ checks its arguments, so the configurations    *)
(* include dimension 0, ngram_size 0 and sparsities outside (0, 1).        *)
(***************************************************************************)
ApiHdDims  == {0, 2, 4}
ApiRows(n) == [1..n -> {-1, 2}]

\* the list comprehension of batch_encode from text number i on; the result
\* of each encode call is bound once, as a value
RECURSIVE BatchEncodeLoop(_, _, _, _, _, _)
BatchEncodeLoop(e, cache, g, texts, i, vectors) ==
    IF i > Len(texts) THEN [vecs |-> vectors, cache |-> cache, gen |-> g, raised |-> None]
    ELSE CHOOSE rest \in
             {IF r.raised # None
              THEN [vecs |-> <<>>, cache |-> r.cache, gen |-> r.gen, raised |-> r.raised]
              ELSE BatchEncodeLoop(e, r.cache, r.gen, texts, i + 1, Append(vectors, r.vec)) :
                 r \in {encode([e EXCEPT !.token_vectors = cache], g, texts[i])}} : TRUE

\* batch_encode(texts): every text is encoded in turn and the rows are
\* concatenated; torch.cat raises for an empty list
batch_encode(e, g, texts) ==
    CHOOSE res \in
        {[raised |-> IF r.raised # None THEN r.raised
                     ELSE IF Len(texts) = 0 THEN "RuntimeError" ELSE None,
          out |-> r.vecs, cache |-> r.cache, gen |-> r.gen] :
            r \in {BatchEncodeLoop(e, e.token_vectors, g, texts, 1, <<>>)}} : TRUE

\* encoder.batch_encode(texts) on HDCTextEncoder e
BatchEncodeCall(e, texts) ==
    /\ enc[e].built
    /\ \E r \in {batch_encode(enc[e], gen, texts)} :
           /\ enc' = [enc EXCEPT ![e].token_vectors = r.cache]
           /\ gen' = r.gen
           /\ call' = [op |-> "batch_encode", self |-> e, args |-> <<texts>>,
                        raised |-> r.raised, out |-> r.out]
    /\ UNCHANGED <<pstep, vector, packed, hd_dim, unpacked, vsa, ret, thr, tenc, mesh>>

\* encoder.pack_ternary(vector) on the TernaryHDCEncoder
PackCall(v) ==
    /\ tenc.built
    /\ call' = [op |-> "pack_ternary", self |-> 0, args |-> <<v>>,
                raised |-> None, out |-> pack_ternary(v)]
    /\ UNCHANGED <<pstep, vector, packed, hd_dim, unpacked, gen, vsa, enc, ret, thr, tenc, mesh>>

\* encoder.unpack_ternary(packed_bytes, hd_dim) on the TernaryHDCEncoder
UnpackCall(bytes, dim) ==
    /\ tenc.built
    /\ LET r == unpack_ternary(bytes, dim)
       IN  call' = [op |-> "unpack_ternary", self |-> 0, args |-> <<bytes, dim>>,
                    raised |-> r.raised, out |-> r.values]
    /\ UNCHANGED <<pstep, vector, packed, hd_dim, unpacked, gen, vsa, enc, ret, thr, tenc, mesh>>

\* get_vector_size(): the sizes in bytes; the compression ratio divides by
\* (hd_dim * 2) // 8, which is 0 for hd_dim < 4
get_vector_size(hd) ==
    IF (hd * 2) \div 8 = 0
    THEN [raised |-> "ZeroDivisionError", out |-> <<>>]
    ELSE [raised |-> None,
          out |-> [float32 |-> hd * 4, float16 |-> hd * 2, binary |-> hd \div 8,
                   ternary_packed |-> (hd * 2) \div 8,
                   compression_ratio_vs_float32 |-> PyDiv(hd * 4, (hd * 2) \div 8)]]

\* encoder.get_vector_size() on the TernaryHDCEncoder
GetVectorSizeCall ==
    /\ tenc.built
    /\ LET r == get_vector_size(tenc.hd_dim)
       IN  call' = [op |-> "get_vector_size", self |-> 0, args |-> <<>>,
                    raised |-> r.raised, out |-> r.out]
    /\ UNCHANGED <<pstep, vector, packed, hd_dim, unpacked, gen, vsa, enc, ret, thr, tenc, mesh>>

NextApi ==
    \/ \E d \in {0, 2}, k \in {0, 1, 2} : ~tenc.built /\ Construct(1, d, k)
    \/ \E hd \in ApiHdDims, sp \in {<<-1, 2>>, <<0, 1>>, <<1, 2>>, <<1, 1>>, <<3, 2>>} :
          ~enc[1].built /\ ConstructTernary(hd, sp)
    \/ \E t \in {<<>>, <<"a">>, <<"a", " ", "b">>} : EncodeCall(1, t)
    \/ \E ts \in {<<>>, <<<<"a">>>>, <<<<"a", " ", "b">>, <<>>>>} : BatchEncodeCall(1, ts)
    \/ \E a \in BitVectors(2), b \in {<<0, 0>>, <<0, 1>>} : BinarySimilarityCall(1, a, b)
    \/ \E v \in ApiRows(tenc.hd_dim) : TernarizeCall(v)
    \/ \E v \in ApiRows(2) : PackCall(v)
    \/ \E b \in {<<>>, <<0>>, <<100>>, <<255>>}, dim \in ApiHdDims : UnpackCall(b, dim)
    \/ \E a \in ApiRows(2), b \in {<<0, 0>>, <<2, -1>>} : TernarySimilarityCall(a, b)
    \/ GetVectorSizeCall

ApiSpec == Init /\ [][NextApi]_vars

\* C18: configuration errors surface at construction. Constructing an
\* encoder with sparsity outside (0, 1), with dimension 0 or with
\* ngram_size 0 raises in the constructor, so no encoder object with such a
\* configuration exists and no later call runs with one.
C18_ConfigurationChecked ==
    /\ \A e \in Encoders :
          enc[e].built => enc[e].dimensions >= 1 /\ enc[e].ngram_size >= 1
    /\ tenc.built =>
          /\ tenc.hd_dim >= 1
          /\ 0 < tenc.sparsity[1] /\ tenc.sparsity[1] < tenc.sparsity[2]

\* C20: write-once derived state. After construction no operation (encode,
\* batch_encode, ternarize, pack_ternary, unpack_ternary, cosine_similarity,
\* get_vector_size) changes an encoder's dimension, ngram_size, sparsity,
\* positional codes or projection matrix.
C20_WriteOnce ==
    [][/\ \A e \in Encoders :
            enc[e].built =>
                /\ enc'[e].built
                /\ enc'[e].dimensions = enc[e].dimensions
                /\ enc'[e].ngram_size = enc[e].ngram_size
                /\ enc'[e].position_vectors = enc[e].position_vectors
       /\ tenc.built =>
            /\ tenc'.built
            /\ tenc'.hd_dim = tenc.hd_dim
            /\ tenc'.sparsity = tenc.sparsity
            /\ tenc'.base_dim = tenc.base_dim
            /\ tenc'.projection = tenc.projection]_vars

\* an HDCTextEncoder has encoded a text and a batch that filled its cache
C20_Witness ==
    /\ enc[1].built /\ enc[1].dimensions = 2 /\ enc[1].ngram_size = 2
    /\ ret.enc = 1 /\ ret.text = <<"a">>
    /\ call.op = "batch_encode" /\ call.raised = None /\ Len(call.args[1]) = 2
    /\ DOMAIN enc[1].token_vectors = Symbols

\* a step that constructs no encoder: in Spec, a call of encode
NoConstruction == \A e \in Encoders : enc'[e].built = enc[e].built

\* the cache of encoder e has only gained entries in the step
CacheGrew(e) ==
    /\ DOMAIN enc[e].token_vectors \subseteq DOMAIN enc'[e].token_vectors
    /\ \A t \in DOMAIN enc[e].token_vectors :
          enc'[e].token_vectors[t] = enc[e].token_vectors[t]

\* C19: encode is side-effect-free apart from cache growth. A call
\* HDCTextEncoder.encode(text) changes no state other than adding entries
\* to that encoder's symbol cache; everything else, the state of the
\* process-wide random generator included, is the same after the call as
\* before it.
C19_EncodeFrame ==
    [][NoConstruction =>
          /\ gen' = gen
          /\ \A e \in Encoders :
                /\ CacheGrew(e)
                /\ enc'[e].dimensions = enc[e].dimensions
                /\ enc'[e].ngram_size = enc[e].ngram_size
                /\ enc'[e].position_vectors = enc[e].position_vectors
          /\ UNCHANGED <<pstep, vector, packed, hd_dim, unpacked, vsa, thr, tenc, call, mesh>>]_vars

(***************************************************************************)
(* TokenSpec: a process in which other code has drawn from the generator   *)
(* constructs two encoders and calls _get_token_vector on them, one call   *)
(* after the other, for any of four strings: the empty string, two    *)
(* symbols, and a string that holds a lone surrogate.                      *)
(***************************************************************************)
\* encoder._get_token_vector(token) on HDCTextEncoder e
GetTokenVectorCall(e, token) ==
    /\ enc[e].built
    /\ \E r \in {get_token_vector(enc[e].token_vectors, gen, token, enc[e].dimensions)} :
          /\ enc' = [enc EXCEPT ![e].token_vectors = r.cache]
          /\ gen' = r.gen
          /\ call' = [op |-> "get_token_vector", self |-> e, args |-> <<token>>,
                      raised |-> r.raised, out |-> r.vec]
    /\ UNCHANGED <<pstep, vector, packed, hd_dim, unpacked, vsa, ret, thr, tenc, mesh>>

NextToken ==
    \/ \E e \in Encoders, d \in {MaxDimensions - 1, MaxDimensions} : Construct(e, d, 1)
    \/ \E e \in Encoders, token \in {<<>>, <<"a">>, PAD, <<LoneSurrogate>>} :
          GetTokenVectorCall(e, token)

TokenSpec == InitEncode /\ [][NextToken]_vars

\* the state of the generator i steps after state g
RECURSIVE GenAfter(_, _)
GenAfter(g, i) == IF i = 0 THEN g ELSE GenNext(GenAfter(g, i - 1))

\* the elements a generator reseeded to state g puts out next, n of them
SeededBits(g, n) == [i \in 1..n |-> ElemOf(GenBit(GenAfter(g, i)))]

\* C21: symbol vectors are a function of the symbol. In sequential
\* execution the vector _get_token_vector stores for a symbol depends only
\* on the symbol and the dimension: two encoders of equal dimensions hold
\* the same vector for a symbol, whatever was generated before, in whatever
\* order, and whatever the generator state was; a call returns the stored
\* vector; and every string, the empty one included, is accepted.
C21_SymbolFunction ==
    /\ \A e1, e2 \in Encoders :
          (enc[e1].built /\ enc[e2].built /\ enc[e1].dimensions = enc[e2].dimensions) =>
              \A t \in DOMAIN enc[e1].token_vectors \cap DOMAIN enc[e2].token_vectors :
                  enc[e1].token_vectors[t] = enc[e2].token_vectors[t]
    /\ \A e \in Encoders : \A t \in DOMAIN enc[e].token_vectors :
          /\ Len(enc[e].token_vectors[t]) = enc[e].dimensions
          /\ enc[e].token_vectors[t] =
                 SeededBits(HexMod(TokenHash(t), 16, 0), enc[e].dimensions)
    /\ call.op = "get_token_vector" =>
          /\ call.raised = None
          /\ call.args[1] \in DOMAIN enc[call.self].token_vectors
          /\ call.out = enc[call.self].token_vectors[call.args[1]]

\* C21, amended: as C21, with "every string that UTF-8 can encode, the
\* empty one included, is accepted": a call for such a string stores (or
\* finds) its vector and returns it; a call for a string with a lone
\* surrogate raises UnicodeEncodeError and stores nothing.
C21_SymbolFunctionEncodable ==
    /\ \A e1, e2 \in Encoders :
          (enc[e1].built /\ enc[e2].built /\ enc[e1].dimensions = enc[e2].dimensions) =>
              \A t \in DOMAIN enc[e1].token_vectors \cap DOMAIN enc[e2].token_vectors :
                  enc[e1].token_vectors[t] = enc[e2].token_vectors[t]
    /\ \A e \in Encoders : \A t \in DOMAIN enc[e].token_vectors :
          /\ Len(enc[e].token_vectors[t]) = enc[e].dimensions
          /\ enc[e].token_vectors[t] =
                 SeededBits(HexMod(TokenHash(t), 16, 0), enc[e].dimensions)
    /\ (call.op = "get_token_vector" /\ Encodable(call.args[1])) =>
          /\ call.raised = None
          /\ call.args[1] \in DOMAIN enc[call.self].token_vectors
          /\ call.out = enc[call.self].token_vectors[call.args[1]]
    /\ (call.op = "get_token_vector" /\ ~Encodable(call.args[1])) =>
          /\ call.raised = "UnicodeEncodeError"
          /\ call.args[1] \notin DOMAIN enc[call.self].token_vectors

\* both encoders have the same dimensions and hold the vectors of the empty
\* string and of a second symbol, generated in opposite orders
C21_Witness ==
    /\ enc[1].built /\ enc[2].built /\ enc[1].dimensions = enc[2].dimensions
    /\ {<<>>, <<"a">>} \subseteq DOMAIN enc[1].token_vectors
    /\ {<<>>, PAD} \subseteq DOMAIN enc[2].token_vectors
    /\ call.op = "get_token_vector" /\ call.args[1] = <<>>

(***************************************************************************)
(* Claims about the windows and the binding of encode.                     *)
(***************************************************************************)
\* the tokens and the windows of the last encode call
LastTokens == tokenize(ret.text)
LastWindows == Ngrams(LastTokens, enc[ret.enc].ngram_size)

\* the entries of a sequence of windows
WindowEntries(ws) == UNION {{ws[w][j] : j \in 1..Len(ws[w])} : w \in 1..Len(ws)}

\* C22: windowing. For a text with n >= 1 tokens and ngram_size k >= 1,
\* encode builds exactly n windows; window i (0-based) consists of tokens
\* i .. min(i+k, n)-1 in order followed by pad symbols, and every window has
\* exactly k entries. The symbols bound by the call, which are the keys of
\* the cache of a fresh encoder after it, are the entries of these windows.
C22_Windowing ==
    (ret.enc # 0 /\ Len(LastTokens) >= 1 /\ enc[ret.enc].ngram_size >= 1) =>
        LET n == Len(LastTokens)
            k == enc[ret.enc].ngram_size
        IN  /\ Len(LastWindows) = n
            /\ \A i \in 0..(n - 1) :
                  /\ Len(LastWindows[i + 1]) = k
                  /\ \A j \in 0..(k - 1) :
                        LastWindows[i + 1][j + 1] =
                            IF i + j <= Min(i + k, n) - 1
                            THEN LastTokens[i + j + 1] ELSE PAD
            /\ DOMAIN enc[ret.enc].token_vectors =
                   {LastTokens[i] : i \in 1..n} \cup (IF k > 1 THEN {PAD} ELSE {})
            /\ DOMAIN enc[ret.enc].token_vectors = WindowEntries(LastWindows)

\* a text of three tokens was encoded with ngram_size 2: the last window is
\* one token and one pad symbol
C22_Witness ==
    /\ ret.enc # 0
    /\ LastTokens = <<<<"a">>, <<"b">>, <<"a">>>>
    /\ enc[ret.enc].ngram_size = 2
    /\ PAD \in DOMAIN enc[ret.enc].token_vectors

\* the number of vectors of the sequence vs whose element i is true
TrueAt(vs, i) == Cardinality({p \in 1..Len(vs) : vs[p][i] # 0})

\* C23: binding formula. Positional code p is the base vector cyclically
\* shifted by p (position 0 is the unshifted base: element j of the base is
\* element j + p of code p, indices taken modulo the dimension), and the
\* vector of a window [w0..w(k-1)] is the exclusive-or over p of
\* (symbol_vector(w_p) XOR positional_code(p)): its bit i is set iff an odd
\* number of the symbol vectors and positional codes of the window are true
\* at i.
C23_BindingFormula ==
    /\ \A e \in Encoders :
          enc[e].built =>
              /\ Len(enc[e].position_vectors) = enc[e].ngram_size
              /\ \A p \in 0..(enc[e].ngram_size - 1) : \A j \in 0..(enc[e].dimensions - 1) :
                    enc[e].position_vectors[p + 1][((j + p) % enc[e].dimensions) + 1] =
                        enc[e].position_vectors[1][j + 1]
    /\ call.op = "encode_ngram" =>
          LET e == enc[call.self]
              window == call.args[1]
              symbols == [p \in 1..Len(window) |-> e.token_vectors[window[p]]]
              codes == [p \in 1..Len(window) |-> e.position_vectors[p]]
          IN  /\ Len(call.out) = e.dimensions
              /\ \A i \in 1..e.dimensions :
                    call.out[i] = (TrueAt(symbols, i) + TrueAt(codes, i)) % 2

\* a window of three different symbols was bound on an encoder whose base
\* vector is not constant; the three symbol vectors and three positional
\* codes are true at every index, an even number, and the result is all zero
C23_Witness ==
    /\ call.op = "encode_ngram"
    /\ call.raised = None
    /\ call.args[1] = <<<<"a">>, <<"b">>, PAD>>
    /\ enc[call.self].position_vectors[2] # enc[call.self].position_vectors[1]
    /\ Len(call.out) >= 2
    /\ \A i \in 1..Len(call.out) : call.out[i] = 0

\* the symbols encode binds for a text on an encoder with ngram_size k: the
\* tokens of the text, and the pad symbol when a window is short
BoundBy(text, k) ==
    LET tokens == tokenize(text)
    IN  IF k = 0 THEN {}
        ELSE {tokens[i] : i \in 1..Len(tokens)}
             \cup (IF Len(tokens) >= 1 /\ k > 1 THEN {PAD} ELSE {})

\* the symbols the step binds on encoder e: those of the text of an encode
\* call, or of all texts of a batch_encode call
BoundInStep(e) ==
    IF ret' # ret /\ ret'.enc = e THEN BoundBy(ret'.text, enc[e].ngram_size)
    ELSE IF call' # call /\ call'.op = "batch_encode" /\ call'.self = e
         THEN UNION {BoundBy(call'.args[1][i], enc[e].ngram_size) :
                        i \in 1..Len(call'.args[1])}
         ELSE {}

\* C24: memoization invariant. Across any sequence of encode and
\* batch_encode calls on one encoder the symbol cache only grows: an entry
\* is never replaced, changed or removed, a fresh encoder has an empty
\* cache, and every call adds exactly the symbols it binds that have no
\* entry yet, so the keys are exactly the symbols bound so far (tokens seen
\* plus the pad symbol when a short window occurred).
C24_Memoization ==
    [][\A e \in Encoders :
          IF ~enc[e].built
          THEN enc'[e].built => DOMAIN enc'[e].token_vectors = {}
          ELSE /\ \A t \in DOMAIN enc[e].token_vectors :
                     /\ t \in DOMAIN enc'[e].token_vectors
                     /\ enc'[e].token_vectors[t] = enc[e].token_vectors[t]
               /\ DOMAIN enc'[e].token_vectors =
                      DOMAIN enc[e].token_vectors \cup BoundInStep(e)]_vars

\* after an encode call a batch_encode call has found one symbol cached and
\* has added two more
C24_Witness ==
    /\ enc[1].built /\ enc[1].ngram_size = 2
    /\ ret.enc = 1 /\ ret.text = <<"a">> /\ ret.added = {<<"a">>, PAD}
    /\ call.op = "batch_encode" /\ call.args[1] = <<<<"a", " ", "b">>, <<>>>>
    /\ DOMAIN enc[1].token_vectors = {<<"a">>, <<"b">>, PAD}

(***************************************************************************)
(* PadSpec: one encoder is constructed and encodes texts whose words spell *)
(* the pad symbol, in upper and in lower case.                             *)
(***************************************************************************)
PadWords == {PAD, <<"<", "p", "a", "d", ">">>, <<"a">>}
PadTexts == PadWords \cup {w1 \o <<" ">> \o w2 : w1, w2 \in PadWords}

NextPad ==
    \/ \E d \in 2..MaxDimensions, k \in 1..MaxNgram : Construct(1, d, k)
    \/ \E t \in PadTexts : EncodeCall(1, t)

PadSpec == InitEncode /\ [][NextPad]_vars

\* C25: the pad symbol is reserved. For every input text no token produced
\* by _tokenize equals the pad symbol '<PAD>' (tokens are lowercased, the
\* pad symbol is not), so a text token never shares the pad symbol's cache
\* entry: the only key equal to the pad symbol is the one the padding of a
\* short window made, and the tokens have keys of their own.
C25_PadReserved ==
    /\ \A t \in PadTexts : \A i \in 1..Len(tokenize(t)) : tokenize(t)[i] # PAD
    /\ ret.enc # 0 =>
          /\ \A i \in 1..Len(LastTokens) :
                /\ LastTokens[i] # PAD
                /\ LastTokens[i] \in DOMAIN enc[ret.enc].token_vectors
          /\ PAD \in DOMAIN enc[ret.enc].token_vectors => enc[ret.enc].ngram_size > 1
          /\ PAD \notin ret.added \/ enc[ret.enc].ngram_size > 1

\* the text '<PAD>' was encoded with ngram_size 2: the cache holds the
\* lowercased token and the pad symbol as two entries
C25_Witness ==
    /\ ret.enc # 0 /\ ret.text = PAD
    /\ enc[ret.enc].ngram_size = 2
    /\ ret.added = {<<"<", "p", "a", "d", ">">>, PAD}

(***************************************************************************)
(* RepackSpec: a received buffer is unpacked with some hd_dim and the      *)
(* result is packed again.  Buffers are empty, one byte, or one byte       *)
(* followed by one of a few second bytes.                                  *)
(***************************************************************************)
RepackBuffers ==
    {<<>>} \cup {<<b>> : b \in Byte}
           \cup {<<b, c>> : b \in Byte, c \in {0, 3, 64, 128, 192, 255}}

InitRepack ==
    /\ pstep = "received"
    /\ vector = <<>>
    /\ packed \in RepackBuffers
    /\ hd_dim \in 0..MaxDim
    /\ unpacked = NoResult
    /\ EncIdle /\ ThrIdle /\ ObjIdle

\* encoder.pack_ternary(unpacked) on the tensor unpack_ternary returned
RepackStep ==
    /\ pstep = "unpacked"
    /\ unpacked.raised = None
    /\ call' = [op |-> "pack_ternary", self |-> 0, args |-> <<unpacked.values>>,
                raised |-> None, out |-> pack_ternary(unpacked.values)]
    /\ pstep' = "repacked"
    /\ UNCHANGED <<vector, packed, hd_dim, unpacked, gen, vsa, enc, ret, thr, tenc, mesh>>

NextRepack == UnpackStep \/ RepackStep
RepackSpec == InitRepack /\ [][NextRepack]_vars

\* the value a 2-bit field stands for
FieldValue(code) == IF code = 2 THEN -1 ELSE code

\* all fields of the buffer from field number dim on are 0b00
ZeroAfter(bytes, dim) ==
    \A f \in dim..(4 * Len(bytes) - 1) : FieldAt(bytes, f \div 4, f % 4) = 0

\* C26: reverse round trip. For every buffer b of exactly ceil(D/4) bytes
\* in which none of the first D 2-bit fields is 0b11 and all fields after
\* the D-th are 0b00, pack_ternary(unpack_ternary(b, D)) = b. For every
\* buffer of at least ceil(D/4) bytes without 0b11 among its first D fields,
\* unpack_ternary(b, D) is the values of the first D fields, whatever the
\* later bits and bytes hold.
C26_ReverseRoundTrip ==
    /\ (/\ pstep = "repacked"
        /\ Len(packed) = CeilDiv4(hd_dim)
        /\ ~ReservedInFirst(packed, hd_dim)
        /\ ZeroAfter(packed, hd_dim))
       => call.out = packed
    /\ (/\ pstep \in {"unpacked", "repacked"}
        /\ Len(packed) >= CeilDiv4(hd_dim)
        /\ ~ReservedInFirst(packed, hd_dim))
       => /\ unpacked.raised = None
          /\ unpacked.values =
                 [i \in 1..hd_dim |-> FieldValue(FieldAt(packed, (i - 1) \div 4, (i - 1) % 4))]

\* the two bytes 0b01100001 0b10000000 were unpacked with hd_dim 5 and
\* packed again
C26_Witness ==
    /\ pstep = "repacked"
    /\ packed = <<97, 128>> /\ hd_dim = 5
    /\ unpacked.values = <<1, -1, 0, 1, -1>>
    /\ call.out = <<97, 128>>

(***************************************************************************)
(* SizeSpec: a TernaryHDCEncoder is constructed; vectors of its hd_dim are *)
(* packed and get_vector_size is called.                                   *)
(***************************************************************************)
NextSize ==
    \/ \E hd \in 1..MaxDim : ConstructTernary(hd, DefaultSparsity)
    \/ \E v \in [1..tenc.hd_dim -> {-1, 1}] : PackCall(v)
    \/ GetVectorSizeCall

SizeSpec == Init /\ [][NextSize]_vars

\* C27: reported size matches real size. For every hd_dim >= 1, when a
\* ternary vector of length hd_dim has been packed and get_vector_size is
\* called next, it returns and its 'ternary_packed' entry equals the byte
\* length of the packed vector.
C27_ReportedSize ==
    [][(/\ tenc.built /\ tenc.hd_dim >= 1
        /\ call.op = "pack_ternary" /\ Len(call.args[1]) = tenc.hd_dim
        /\ call'.op = "get_vector_size")
       => (/\ call'.raised = None
           /\ call'.out.ternary_packed = Len(call.out))]_vars

\* ---------------------------------------------------------------------------
\* quick_demo.py, demo_mesh_gossip: a mesh of SimpleNode objects and the
\* recursive propagate that floods one event through it.  The recursion is
\* modelled by its call stack: mesh.pending holds the calls of propagate not
\* yet entered, the next one to run first; nothing runs in a call after
\* its loop over the peers, so a frame is dropped as soon as its body has run.
\* ---------------------------------------------------------------------------

\* nodes = [SimpleNode(i) for i in range(5)]
MeshNodes == 5
Nodes == 0..(MeshNodes - 1)
\* event_id = "evt_001"
event_id == "evt_001"

\* SimpleNode.__init__ for every node: no peers, an empty memory
FreshMesh == [phase |-> "build",
              peers |-> [n \in Nodes |-> <<>>],
              memory |-> [n \in Nodes |-> {}],
              links |-> 0, origin |-> 0, ttl |-> 0,
              pending |-> <<>>, log |-> <<>>, last |-> <<>>]

InitMesh ==
    /\ PackIdle /\ EncIdle /\ ThrIdle
    /\ tenc = NoTenc /\ call = NoCall
    /\ mesh = FreshMesh

IsPeer(peers, n, other) == \E i \in 1..Len(peers[n]) : peers[n][i] = other

\* SimpleNode.connect: the body, on the peers of all nodes
connect(peers, n, other) ==
    IF IsPeer(peers, n, other)
    THEN peers
    ELSE [m \in Nodes |->
            IF n = other /\ m = n THEN Append(Append(peers[m], other), n)
            ELSE IF m = n THEN Append(peers[m], other)
            ELSE IF m = other THEN Append(peers[m], n)
            ELSE peers[m]]

\* one call a.connect(b) while the mesh is built
Connect(a, b) ==
    /\ mesh.phase = "build"
    /\ mesh.links < MaxLinks
    /\ mesh' = [mesh EXCEPT !.peers = connect(mesh.peers, a, b),
                            !.links = mesh.links + 1]
    /\ UNCHANGED <<pstep, vector, packed, hd_dim, unpacked, gen, vsa, enc,
                   ret, thr, tenc, call>>

\* the five connect calls of the demo: 0-1, 1-2, 2-3, 3-4, 0-3
DemoPeers ==
    connect(connect(connect(connect(connect(FreshMesh.peers,
        0, 1), 1, 2), 2, 3), 3, 4), 0, 3)

ConnectDemo ==
    /\ mesh.phase = "build"
    /\ mesh.links = 0
    /\ mesh' = [mesh EXCEPT !.peers = DemoPeers, !.links = 5]
    /\ UNCHANGED <<pstep, vector, packed, hd_dim, unpacked, gen, vsa, enc,
                   ret, thr, tenc, call>>

\* the outermost call propagate(nodes[origin], event_id, ..., ttl)
Propagate(origin, ttl) ==
    /\ mesh.phase = "build"
    /\ mesh' = [mesh EXCEPT !.phase = "running",
                            !.origin = origin, !.ttl = ttl,
                            !.pending = <<[node |-> origin, ttl |-> ttl]>>]
    /\ UNCHANGED <<pstep, vector, packed, hd_dim, unpacked, gen, vsa, enc,
                   ret, thr, tenc, call>>

\* the calls propagate(peer, ..., ttl - 1) of the loop over node.peers
PeerCalls(peers, node, ttl) ==
    [i \in 1..Len(peers[node]) |-> [node |-> peers[node][i], ttl |-> ttl - 1]]

\* propagate without the check of node.memory
DeliverUnchecked ==
    /\ mesh.phase = "running"
    /\ mesh.pending # <<>>
    /\ LET f == Head(mesh.pending)
           rest == Tail(mesh.pending)
       IN mesh' = [mesh EXCEPT
               !.memory = [mesh.memory EXCEPT
                              ![f.node] = mesh.memory[f.node] \cup {event_id}],
               !.log = Append(mesh.log, <<f.node, f.ttl>>),
               !.pending = IF f.ttl > 0
                           THEN PeerCalls(mesh.peers, f.node, f.ttl) \o rest
                           ELSE rest,
               !.last = [node |-> f.node, ttl |-> f.ttl, fresh |-> TRUE]]
    /\ UNCHANGED <<pstep, vector, packed, hd_dim, unpacked, gen, vsa, enc,
                   ret, thr, tenc, call>>

\* one call of propagate runs its body: return at once when the node has the
\* event, else record it, print the node and call propagate on every peer
Deliver ==
    /\ mesh.phase = "running"
    /\ mesh.pending # <<>>
    /\ LET f == Head(mesh.pending)
           rest == Tail(mesh.pending)
       IN IF event_id \in mesh.memory[f.node]
          THEN mesh' = [mesh EXCEPT
                  !.pending = rest,
                  !.last = [node |-> f.node, ttl |-> f.ttl, fresh |-> FALSE]]
          ELSE mesh' = [mesh EXCEPT
                  !.memory = [mesh.memory EXCEPT
                                 ![f.node] = mesh.memory[f.node] \cup {event_id}],
                  !.log = Append(mesh.log, <<f.node, f.ttl>>),
                  !.pending = IF f.ttl > 0
                              THEN PeerCalls(mesh.peers, f.node, f.ttl) \o rest
                              ELSE rest,
                  !.last = [node |-> f.node, ttl |-> f.ttl, fresh |-> TRUE]]
    /\ UNCHANGED <<pstep, vector, packed, hd_dim, unpacked, gen, vsa, enc,
                   ret, thr, tenc, call>>

\* the outermost call of propagate returns
Return ==
    /\ mesh.phase = "running"
    /\ mesh.pending = <<>>
    /\ mesh' = [mesh EXCEPT !.phase = "returned"]
    /\ UNCHANGED <<pstep, vector, packed, hd_dim, unpacked, gen, vsa, enc,
                   ret, thr, tenc, call>>

NextMesh ==
    \/ \E a, b \in Nodes : a < b /\ Connect(a, b)
    \/ ConnectDemo
    \* started on nodes[0] as in the demo, or on one more node
    \/ \E origin \in {0, 2}, ttl \in 0..MaxTtl : Propagate(origin, ttl)
    \/ Deliver
    \/ Return

MeshSpec == InitMesh /\ [][NextMesh]_vars

\* the interpreter runs a call that was started until it returns
MeshFairSpec == MeshSpec /\ WF_vars(Deliver) /\ WF_vars(Return)

\* the nodes at hop distance at most k from node o
RECURSIVE Within(_, _, _)
Within(peers, o, k) ==
    IF k = 0 THEN {o}
    ELSE LET near == Within(peers, o, k - 1)
         IN near \cup {n \in Nodes : \E m \in near : IsPeer(peers, m, n)}

\* C28: after propagate(origin, event, ttl) has returned, every node at hop
\* distance at most ttl from the origin has the event id in its memory; on
\* the demo's topology with ttl 3 these are all 5 nodes.
C28_GossipReach ==
    mesh.phase = "returned"
        => \A n \in Within(mesh.peers, mesh.origin, mesh.ttl) :
              event_id \in mesh.memory[n]

\* the demo's own run has returned: 5 nodes, its 5 links, origin 0, ttl 3
C28_DemoReturned ==
    /\ mesh.phase = "returned"
    /\ mesh.peers = DemoPeers
    /\ mesh.origin = 0 /\ mesh.ttl = 3

Holders(log) == {log[i][1] : i \in 1..Len(log)}

\* C29 (safety part, states): no node is recorded twice, every recorded and
\* every pending call has a ttl of 0 or more and at most the first ttl
C29_OncePerNode ==
    /\ \A i, j \in 1..Len(mesh.log) :
          mesh.log[i][1] = mesh.log[j][1] => i = j
    /\ \A i \in 1..Len(mesh.log) : mesh.log[i][2] \in 0..mesh.ttl
    /\ \A i \in 1..Len(mesh.pending) : mesh.pending[i].ttl \in 0..mesh.ttl
    /\ \A n \in Nodes : event_id \in mesh.memory[n] <=> n \in Holders(mesh.log)

\* C29 (safety part, steps): a delivery to a node that holds the id records
\* nothing and forwards nothing; a first delivery forwards to each peer with
\* the ttl less one, and with ttl 0 forwards nothing
C29_DeliveryStep ==
    (mesh.phase = "running" /\ mesh.pending # <<>>)
    => LET f == Head(mesh.pending)
           rest == Tail(mesh.pending)
       IN IF event_id \in mesh.memory[f.node]
          THEN /\ mesh'.memory = mesh.memory
               /\ mesh'.log = mesh.log
               /\ mesh'.pending = rest
          ELSE /\ mesh'.log = Append(mesh.log, <<f.node, f.ttl>>)
               /\ Len(mesh'.pending) =
                     Len(rest) + (IF f.ttl > 0 THEN Len(mesh.peers[f.node]) ELSE 0)
               /\ \A i \in 1..(Len(mesh'.pending) - Len(rest)) :
                     /\ mesh'.pending[i].node = mesh.peers[f.node][i]
                     /\ mesh'.pending[i].ttl = f.ttl - 1

\* C29: a node handles the event id at most once, a delivery to a node that
\* already holds it returns without recording or forwarding, the ttl falls by
\* one per hop and never below 0, and every propagate that starts returns.
C29_AtMostOnce ==
    /\ []C29_OncePerNode
    /\ [][C29_DeliveryStep]_vars
    /\ (mesh.phase = "running") ~> (mesh.phase = "returned")

\* propagate has returned on a mesh with a cycle, after a call that found the
\* event already held by the node
C29_Witness ==
    /\ mesh.phase = "returned"
    /\ mesh.last # <<>> /\ ~mesh.last.fresh
    /\ Len(mesh.log) >= 3
    /\ \A n \in Holders(mesh.log) : Len(mesh.peers[n]) >= 2

====
